---- MODULE Spec2Model ----
(***************************************************************************)
(* A model of the CRS reports pipeline (JoshData/crs-reports-website):     *)
(* the collation of report version metadata from three sources             *)
(* (process_incoming.py: read_reports_metadata and its three loaders),     *)
(* the transformation to the public metadata format, the write-out of the  *)
(* per-report JSON, and the content-addressed storage of PDF files.        *)
(*                                                                         *)
(* Strings that the code compares, slices or sorts are modelled by what    *)
(* those operations do to them:                                            *)
(*  - an ISO date string is [day |-> d, time |-> t], standing for the      *)
(*    ten characters "YYYY-MM-DD" of day d followed by the suffix t, which *)
(*    is "" (a bare date), "T00:00:00" or "T12:00:00".  Python's string    *)
(*    order on such strings is the order on (day, suffix), the empty       *)
(*    suffix being a proper prefix and therefore smallest.                 *)
(*  - a retrieval timestamp is a natural number; the ISO strings the       *)
(*    loaders produce for it are fixed-width, so their string order is     *)
(*    the order of the numbers.                                            *)
(***************************************************************************)
EXTENDS Integers, Sequences, FiniteSets, TLC

\* ------------------------------------------------------------------ bounds
\* Calendar days that publication dates are drawn from.
MaxDay == 2
\* Retrieval timestamps that records are drawn from.
MaxRetrieved == 2
\* Raw records that the loaders read in one run.
MaxRecords == 3

Days == 1..MaxDay
Rets == 1..MaxRetrieved

\* ------------------------------------------------------------ date strings
NoTime == ""
Midnight == "T00:00:00"
Noon == "T12:00:00"

DateStr(d, t) == [day |-> d, time |-> t]

\* Rank of a time suffix in Python's string order ("" is a prefix of the others).
TimeRank(t) == CASE t = NoTime -> 0 [] t = Midnight -> 1 [] OTHER -> 2

\* s1 < s2 as Python compares the two strings.
StrLess(s1, s2) ==
    \/ s1.day < s2.day
    \/ s1.day = s2.day /\ TimeRank(s1.time) < TimeRank(s2.time)

\* s[:10], the calendar day of an ISO date string, itself a (bare date) string.
Prefix10(s) == DateStr(s.day, NoTime)

\* --------------------------------------------------------------- constants
INCOMING_SOURCE == "EveryCRSReport.com"
UNT_SOURCE_STRING == "University of North Texas Libraries Government Documents Department"
CONGRESS_SOURCE == "CRSReports.Congress.gov"

\* ----------------------------------------------------------- report numbers
\* A report number (and a line of the denylist file) is a sequence of
\* one-character strings.
R1 == <<"R", "1">>
R2 == <<"R", "2">>
R1Space == <<"R", " ", "1">>
R1Lower == <<"r", "1">>
R1Newline == <<"R", "1", "\n">>

AllowedChars ==
    {"0", "1", "2", "3", "4", "5", "6", "7", "8", "9", "-",
     "A", "B", "C", "D", "E", "F", "G", "H", "I", "J", "K", "L", "M",
     "N", "O", "P", "Q", "R", "S", "T", "U", "V", "W", "X", "Y", "Z"}

\* Every character of n is in the class [0-9A-Z-], and there is at least one.
AllAllowed(n) == Len(n) > 0 /\ \A i \in 1..Len(n) : n[i] \in AllowedChars

\* re.match(r"^[0-9A-Z-]+$", n): in Python "$" also matches just before a
\* newline that ends the string.
MatchesNumberPattern(n) ==
    \/ AllAllowed(n)
    \/ Len(n) > 1 /\ n[Len(n)] = "\n" /\ AllAllowed(SubSeq(n, 1, Len(n) - 1))

\* s.replace(c, "")
RECURSIVE RemoveChar(_, _)
RemoveChar(s, c) ==
    IF s = <<>> THEN <<>>
    ELSE IF Head(s) = c THEN RemoveChar(Tail(s), c)
    ELSE <<Head(s)>> \o RemoveChar(Tail(s), c)

\* s.split(c)[0]: the part of s before the first c, all of s when c is not in it.
RECURSIVE SplitFirst(_, _)
SplitFirst(s, c) ==
    IF s = <<>> \/ Head(s) = c THEN <<>>
    ELSE <<Head(s)>> \o SplitFirst(Tail(s), c)

\* ----------------------------------------------------------- file contents
\* A file's bytes are a content identifier; hashlib.sha1 is modelled as an
\* injective map from contents to digests.
Contents == {"c1", "c2"}
Sha1(content) == <<"sha1", content>>

\* A stored file name "files/<date>_<number>_<sha1>.<ext>".  The date part is
\* written compactly ("YYYYMMDD") or in ISO form ("YYYY-MM-DD").
FileName(style, day, number, sha1, ext) ==
    [style |-> style, day |-> day, number |-> number, sha1 |-> sha1, ext |-> ext]

\* fn.replace(".pdf", ext)
ReplaceExt(fn, ext) == [fn EXCEPT !.ext = ext]

\* A format entry of a version: the kind ("PDF" or "HTML"), the stored file
\* name and the stored names of the images that the HTML refers to (the values
\* of the entry's "images" map; none when the entry has no such key).
Format(kind, fn, images) == [format |-> kind, filename |-> fn, images |-> images]

\* ---------------------------------------------------------- version records
\* A report version in the public metadata format.  The fields id, title,
\* summary and topics are copied through by every operation and are left out.
\* missing: the keys that the record lacks (a crsreports.congress.gov JSON file
\* is appended as it was read).
VersionRecord(source, date, retrieved, type, typeId, active, formats, sourceDir, missing) ==
    [source |-> source, date |-> date, retrieved |-> retrieved, type |-> type,
     typeId |-> typeId, active |-> active, formats |-> formats,
     source_dir |-> sourceDir, missing |-> missing]

\* ------------------------------------------------- the reports dictionary
\* collections.defaultdict(lambda : []): keys in insertion order, and the
\* version list of each key.
EmptyReports == [keys |-> <<>>, vs |-> <<>>]

HasKey(rs, n) == n \in DOMAIN rs.vs

\* reports[n] as the loaders read it
Versions(rs, n) == IF HasKey(rs, n) THEN rs.vs[n] ELSE <<>>

\* reports[n].append(rec)
AppendVersion(rs, n, rec) ==
    IF HasKey(rs, n)
    THEN [rs EXCEPT !.vs[n] = Append(@, rec)]
    ELSE [keys |-> Append(rs.keys, n),
          vs |-> [k \in DOMAIN rs.vs \cup {n} |-> IF k = n THEN <<rec>> ELSE rs.vs[k]]]

\* "for v in reports[n]: if v["date"] == date: break": some version carries
\* exactly this date string.
HasDateString(vs, date) == \E i \in 1..Len(vs) : vs[i].date = date

\* "if v["date"][:10] == rec["date"][:10]": some version falls on this day.
HasCalendarDay(vs, date) ==
    \E i \in 1..Len(vs) : Prefix10(vs[i].date) = Prefix10(date)

\* The outcome of one loader step: the dictionary, the exception that left the
\* loader ("" when none did), the file that the step wrote under reports/files
\* (<<>> when none, else <<name, content>>), the hash cache, and the record
\* that reached the loader's duplicate check (<<>> when none did, else
\* <<number, record>>).
Outcome(rs, err, wrote, cache, offered) ==
    [rs |-> rs, err |-> err, wrote |-> wrote, cache |-> cache, offered |-> offered]

\* The step left the state as it was: the record was skipped.
Skipped(rs, cache) == Outcome(rs, "", <<>>, cache, <<>>)

\* The step raised an exception that the loader does not catch.
Raised(rs, exc, cache) == Outcome(rs, exc, <<>>, cache, <<>>)

\* ---------------------------------------------------------- the denylist
\* read_reports_metadata, "set(line.split("\t")[0] for line in f)": iterating
\* a file yields each line with its line break, which split("\t") keeps when
\* the line holds no tab.
ReadWithheldReports(lines) == {SplitFirst(lines[i], "\t") : i \in 1..Len(lines)}

\* ------------------------------------------------------ loader 1: crs.gov
\* A raw incoming/documents/*.json file:
\*   json                  whether json.load accepts the file
\*   ProductNumber, CoverDate (a date string), fetched ([t, frac]: the time and
\*   whether the string has fractional seconds), ProdTypeGroupCode,
\*   ProdTypeDisplayName, StatusFlag, hasTitle, FormatList
CrsDoc(json, number, coverDate, fetched, code, display, status, hasTitle, formats) ==
    [json |-> json, ProductNumber |-> number, CoverDate |-> coverDate,
     fetched |-> fetched, ProdTypeGroupCode |-> code, ProdTypeDisplayName |-> display,
     StatusFlag |-> status, hasTitle |-> hasTitle, FormatList |-> formats]

\* strptime(s, "%Y-%m-%dT%H:%M:%S") accepts s: s has a time of day.
IsDateTime(s) == s.time # NoTime

\* The record that load_crs_dot_gov_reports builds from a document.
CrsRecord(doc) ==
    VersionRecord(INCOMING_SOURCE, doc.CoverDate, doc.fetched.t,
                  doc.ProdTypeDisplayName, doc.ProdTypeGroupCode,
                  doc.StatusFlag = "Active", doc.FormatList, "", {})

\* One iteration of the loop of load_crs_dot_gov_reports.
LoadCrsDotGovRecord(rs, doc, withheld, cache) ==
    IF ~doc.json THEN Skipped(rs, cache)
    ELSE IF doc.ProdTypeGroupCode \notin {"REPORTS", "INSIGHTS"} THEN Skipped(rs, cache)
    ELSE IF doc.ProductNumber \in withheld THEN Skipped(rs, cache)
    ELSE IF ~IsDateTime(doc.CoverDate) \/ ~doc.fetched.frac THEN Raised(rs, "ValueError", cache)
    ELSE IF ~doc.hasTitle THEN Raised(rs, "KeyError", cache)
    ELSE Outcome(IF HasDateString(Versions(rs, doc.ProductNumber), CrsRecord(doc).date)
                 THEN rs
                 ELSE AppendVersion(rs, doc.ProductNumber, CrsRecord(doc)),
                 "", <<>>, cache, <<doc.ProductNumber, CrsRecord(doc)>>)

\* ---------------------------------------------------- loader 2: UNT archive
\* The members of the tar archive that are PDF files, and their bytes.
ArchiveMembers == {"a/report.pdf", "b/scan.pdf", "c/other.pdf"}
ArchiveContent(member) == IF member = "c/other.pdf" THEN "c2" ELSE "c1"

\* A metadata record of the archive with its PDF:
\*   xml          whether lxml parses the metadata file
\*   seriestitle  "" or a series title
\*   identifier   the CRS identifier (<<>>: there is none)
\*   creation     [kind, day]: the creation date, given as "YYYY" ("Y"),
\*                "YYYY-MM" ("YM") or "YYYY-MM-DD" ("YMD"); kind "" when absent
\*   complete     whether the ark, metadataCreationDate and title are present
\*   mcd          the metadataCreationDate
\*   pdf          the PDF member of the record's directory
UntDoc(xml, seriestitle, identifier, creation, complete, mcd, pdf) ==
    [xml |-> xml, seriestitle |-> seriestitle, identifier |-> identifier,
     creation |-> creation, complete |-> complete, mcd |-> mcd, pdf |-> pdf]

\* Lines 250-251: a partial date is made up to the first day of its period.
\* Day 1 is the first day of the year and of the month that Days lie in.
MadeUpDay(creation) == IF creation.kind \in {"Y", "YM"} THEN 1 ELSE creation.day

\* Mutant: the hash is taken of the member's name, not of its bytes.
UntHashOfName(cache, member) == Sha1(member)

\* Lines 260-269: the hash of the PDF, from the cache when it is there.
UntHash(cache, member) ==
    IF member \in DOMAIN cache THEN cache[member] ELSE Sha1(ArchiveContent(member))

UntCacheAfter(cache, member) ==
    IF member \in DOMAIN cache THEN cache
    ELSE [m \in DOMAIN cache \cup {member} |->
            IF m = member THEN Sha1(ArchiveContent(member)) ELSE cache[m]]

\* Line 270: the name the PDF is stored under.
UntFileName(doc, cache) ==
    FileName("compact", MadeUpDay(doc.creation), RemoveChar(doc.identifier, " "),
             UntHash(cache, doc.pdf), "pdf")

UntRecord(doc, cache) ==
    VersionRecord(UNT_SOURCE_STRING, DateStr(MadeUpDay(doc.creation), Midnight), doc.mcd,
                  "CRS Report", "REPORT", FALSE,
                  <<Format("PDF", UntFileName(doc, cache), {})>>, "", {})

\* One iteration of the fourth pass of load_unt_reports.  files is the set of
\* names under reports/files.
LoadUntRecord(rs, doc, cache, files) ==
    LET number == RemoveChar(doc.identifier, " ")
        rec == UntRecord(doc, cache)
        fn == UntFileName(doc, cache)
        cached == UntCacheAfter(cache, doc.pdf)
    IN  IF ~doc.xml THEN Raised(rs, "XMLSyntaxError", cache)
        ELSE IF doc.seriestitle \in {"Legal Sidebar", "Legal Sidebars"} THEN Skipped(rs, cache)
        ELSE IF doc.identifier = <<>> THEN Skipped(rs, cache)
        ELSE IF ~MatchesNumberPattern(number) THEN Skipped(rs, cache)
        ELSE IF doc.creation.kind = "" THEN Skipped(rs, cache)
        ELSE IF ~doc.complete THEN Skipped(rs, cached)
        ELSE IF HasCalendarDay(Versions(rs, number), rec.date)
             THEN Outcome(rs, "", <<>>, cached, <<number, rec>>)
        ELSE Outcome(AppendVersion(rs, number, rec), "",
                     IF fn \in files THEN <<>> ELSE <<fn, ArchiveContent(doc.pdf)>>,
                     cached, <<number, rec>>)

\* -------------------------------------- loader 3: crsreports.congress.gov
\* A raw incoming/crsreports.congress.gov/documents/*.json file:
\*   json       whether json.load accepts the file
\*   fnMatches  whether the file name has the form <report>_<seq>_<date>.json
\*   reportId   the <report> part of the file name
\*   doc        the record in the file
CongressFile(json, fnMatches, reportId, doc) ==
    [json |-> json, fnMatches |-> fnMatches, reportId |-> reportId, doc |-> doc]

\* Lines 378-381: the loop over the versions held raises KeyError when it
\* reads a "date" that is not there, unless it has left the loop before.
RECURSIVE DateScan(_, _)
DateScan(vs, doc) ==
    IF vs = <<>> THEN "new"
    ELSE IF "date" \in Head(vs).missing \/ "date" \in doc.missing THEN "KeyError"
    ELSE IF Head(vs).date = doc.date THEN "held"
    ELSE DateScan(Tail(vs), doc)

\* The record that the loader appends: the file's, with its source_dir.
CongressVersion(file) == [file.doc EXCEPT !.source_dir = "crsreports.congress.gov"]

\* One iteration of the loop of load_crsreports_dot_congress_dot_gov_reports.
LoadCongressRecord(rs, file, cache) ==
    IF ~file.json THEN Skipped(rs, cache)
    ELSE IF ~file.fnMatches THEN Raised(rs, "AttributeError", cache)
    ELSE LET scan == DateScan(Versions(rs, file.reportId), file.doc)
         IN  IF scan = "KeyError" THEN Raised(rs, "KeyError", cache)
             ELSE Outcome(IF scan = "held" THEN rs
                          ELSE AppendVersion(rs, file.reportId, CongressVersion(file)),
                          "", <<>>, cache, <<file.reportId, CongressVersion(file)>>)

\* ------------------------------------------------------ sorting, transform
\* The sort key (record['date'], record['retrieved']) of a < that of b, as
\* Python compares the two tuples of strings.
KeyLess(a, b) ==
    \/ StrLess(a.date, b.date)
    \/ a.date = b.date /\ a.retrieved < b.retrieved

\* list.sort(key=..., reverse=True) is stable: x goes before the first element
\* with a smaller key, after every element with an equal or greater one.
RECURSIVE InsertDescending(_, _)
InsertDescending(sorted, x) ==
    IF sorted = <<>> THEN <<x>>
    ELSE IF KeyLess(Head(sorted), x) THEN <<x>> \o sorted
    ELSE <<Head(sorted)>> \o InsertDescending(Tail(sorted), x)

RECURSIVE SortFrom(_, _)
SortFrom(sorted, rest) ==
    IF rest = <<>> THEN sorted
    ELSE SortFrom(InsertDescending(sorted, Head(rest)), Tail(rest))

\* Line 65: report.sort(key = (date, retrieved), reverse=True)
SortVersions(vs) == SortFrom(<<>>, vs)

\* transform_report_metadata, lines 452-455: the sources in order of first
\* occurrence.
RECURSIVE CollectSources(_, _)
CollectSources(vs, sources) ==
    IF vs = <<>> THEN sources
    ELSE IF \E i \in 1..Len(sources) : sources[i] = Head(vs).source
         THEN CollectSources(Tail(vs), sources)
         ELSE CollectSources(Tail(vs), Append(sources, Head(vs).source))

\* Mutant: the report's fields are taken from the oldest version.
LastVersion(versions) == versions[Len(versions)]

\* The version whose fields transform_report_metadata copies to the report.
HeadVersion(versions) == versions[1]

\* transform_report_metadata.  source is the list that ", ".join turns into one
\* string (no source name holds a comma, so the list is read off the string).
TransformReportMetadata(number, versions) ==
    [id |-> number,
     type |-> HeadVersion(versions).type,
     typeId |-> HeadVersion(versions).typeId,
     number |-> number,
     active |-> HeadVersion(versions).active,
     source |-> CollectSources(versions, <<>>),
     versions |-> versions]

\* Lines 64-79 of read_reports_metadata: sort each report's versions, sort the
\* reports by their first version, transform each.
SortReports(rs) ==
    LET item(i) == LET vs == SortVersions(rs.vs[rs.keys[i]])
                   IN  [date |-> vs[1].date, retrieved |-> vs[1].retrieved,
                        number |-> rs.keys[i], versions |-> vs]
    IN  SortFrom(<<>>, [i \in 1..Len(rs.keys) |-> item(i)])

CollateReports(rs) ==
    LET items == SortReports(rs)
    IN  [i \in 1..Len(items) |-> TransformReportMetadata(items[i].number, items[i].versions)]

\* Sorting reads 'date' and 'retrieved' of every record: KeyError when one
\* lacks them.
LacksSortKey(rs) ==
    \E n \in DOMAIN rs.vs : \E i \in 1..Len(rs.vs[n]) : rs.vs[n][i].missing # {}

\* ------------------------------------------------------------------ state
VARIABLES
    pc,                \* where the run is: "start", "crs", "unt", "congress", "read_done",
                       \* "cleaned", "html_added", "written", "done", "aborted"
    run,               \* the number of the run of process_incoming
    denylist,          \* the lines of withheld-reports.txt
    incoming,          \* the raw records of the three sources, in the order they are read
    withheld_reports,  \* read_reports_metadata: the set read from the denylist
    reports,           \* read_reports_metadata: the dictionary the loaders fill
    reportsList,       \* the list read_reports_metadata returns (the global 'reports')
    all_files,         \* __main__: the names under reports/files that this run accounts for
    error,             \* the exception that ended the run and the function it left
    nread,             \* raw records read so far in this run
    offered,           \* the record that last reached a loader's duplicate check
    hashcache,         \* load_unt_reports: the shelve of PDF hashes
    disk,              \* the files on disk: path |-> content, a path is <<directory, name>>
    prev,              \* the files on disk when this run started
    written,           \* the paths that this run has written
    unlinked,          \* the paths that this run has deleted
    pool,              \* clean_files: the worker pool, its tasks and the loop position
    page,              \* clean_html: the page being sanitized and what came of it
    site               \* the script of the web site that is running, with its loop

vars == <<pc, run, denylist, incoming, withheld_reports, reports, reportsList, all_files,
          error, nread, offered, hashcache, disk, prev, written, unlinked, pool, page, site>>

\* The variables that a loader step leaves alone.
loaderFrame == <<run, denylist, incoming, withheld_reports, reportsList, all_files, prev, unlinked,
                 pool, page, site>>

\* The variables that only loader steps change.
stepVars == <<reports, error, nread, hashcache, disk, written>>

NoError == [exc |-> "", at |-> ""]

\* The names under a directory.
Names(d, dir) == {p[2] : p \in {q \in DOMAIN d : q[1] = dir}}

\* open(path, "w").write(content)
WriteFile(d, path, content) ==
    [p \in DOMAIN d \cup {path} |-> IF p = path THEN content ELSE d[p]]

\* A file: what made it, the bytes it was made from, and its inode (the path
\* it was created at; a hard link shares the inode of the file it links to).
File(kind, bytes, path) == [kind |-> kind, bytes |-> bytes, inode |-> path]

\* Two files are the same bytes in the same inode.
SameFile(a, b) == a.kind = b.kind /\ a.bytes = b.bytes /\ a.inode = b.inode

REPORTS_FILES == "reports/files"
REPORTS_REPORTS == "reports/reports"

\* ------------------------------------------------------------ raw inputs
\* The PDF format entry of a crs.gov document (its file name is the
\* scraper's, which names files as load_unt_reports does).
CrsFormats(number, day) ==
    <<Format("PDF", FileName("compact", day, number, Sha1("c1"), "pdf"), {})>>

GoodCrsDoc(number, day, time, fetched, code, display, status) ==
    CrsDoc(TRUE, number, DateStr(day, time), [t |-> fetched, frac |-> TRUE],
           code, display, status, TRUE, CrsFormats(number, day))

GoodUntDoc(identifier, kind, day, mcd, pdf) ==
    UntDoc(TRUE, "", identifier, [kind |-> kind, day |-> day], TRUE, mcd, pdf)

CongressRecord(number, day, retrieved, missing) ==
    VersionRecord(CONGRESS_SOURCE, DateStr(day, NoTime), retrieved, "CRS Report", "R", TRUE,
                  <<Format("PDF", FileName("iso", day, number, Sha1("c1"), "pdf"), {})>>,
                  "", missing)

GoodCongressFile(number, day, retrieved) ==
    CongressFile(TRUE, TRUE, number, CongressRecord(number, day, retrieved, {}))

\* The inputs of the collation: versions of report R1 on every day, at two
\* times of day, with every retrieval time, from each source, and one version
\* of a second report.
CrsDocs ==
    {GoodCrsDoc(R1, d, t, f, "REPORTS", "CRS Report", "Active") :
        d \in Days, t \in {Midnight, Noon}, f \in Rets}
    \cup {GoodCrsDoc(R2, 1, Midnight, 1, "INSIGHTS", "CRS Insight", "Archived")}

UntDocs ==
    {GoodUntDoc(R1, "YMD", d, m, "a/report.pdf") : d \in Days, m \in Rets}
    \cup {GoodUntDoc(R1, "Y", 1, 1, "b/scan.pdf")}

CongressFiles ==
    {GoodCongressFile(R1, d, r) : d \in Days, r \in Rets}
    \cup {GoodCongressFile(R2, 1, 1)}

\* withheld-reports.txt, a sequence of lines
NoDenylist == <<>>

\* ---------------------------------------------------------------- actions
\* The disk after a loader step, and the paths the step wrote.
DiskAfter(d, o) ==
    IF o.wrote = <<>> THEN d
    ELSE WriteFile(d, <<REPORTS_FILES, o.wrote[1]>>,
                   File("pdf", o.wrote[2], <<REPORTS_FILES, o.wrote[1]>>))

WrittenBy(o) == IF o.wrote = <<>> THEN {} ELSE {<<REPORTS_FILES, o.wrote[1]>>}

\* The effect of one loader step on the state.
Step(o, loader, here) ==
    /\ reports' = o.rs
    /\ hashcache' = o.cache
    /\ disk' = DiskAfter(disk, o)
    /\ written' = written \cup WrittenBy(o)
    /\ error' = IF o.err = "" THEN NoError ELSE [exc |-> o.err, at |-> loader]
    /\ pc' = IF o.err = "" THEN here ELSE "aborted"
    /\ nread' = nread + 1
    /\ offered' = o.offered
    /\ UNCHANGED loaderFrame

\* read_reports_metadata, lines 49-55
ReadDenylist ==
    /\ pc = "start"
    /\ withheld_reports' = ReadWithheldReports(denylist)
    /\ pc' = "crs"
    /\ UNCHANGED <<pool, page, site, run, denylist, incoming, reportsList, all_files, prev, unlinked, offered>>
    /\ UNCHANGED stepVars

\* load_crs_dot_gov_reports: one file of sorted(glob(...))
LoadCrs(docs) ==
    /\ pc = "crs"
    /\ nread < MaxRecords
    /\ \E doc \in docs :
         Step(LoadCrsDotGovRecord(reports, doc, withheld_reports, hashcache),
              "load_crs_dot_gov_reports", "crs")

\* load_crs_dot_gov_reports returns
CrsEnd ==
    /\ pc = "crs"
    /\ pc' = "unt"
    /\ offered' = <<>>
    /\ UNCHANGED loaderFrame
    /\ UNCHANGED stepVars

\* load_unt_reports: one metadata record of the archive
LoadUnt(docs) ==
    /\ pc = "unt"
    /\ nread < MaxRecords
    /\ \E doc \in docs :
         Step(LoadUntRecord(reports, doc, hashcache, Names(disk, REPORTS_FILES)),
              "load_unt_reports", "unt")

\* load_unt_reports returns (at once when there is no archive)
UntEnd ==
    /\ pc = "unt"
    /\ pc' = "congress"
    /\ offered' = <<>>
    /\ UNCHANGED loaderFrame
    /\ UNCHANGED stepVars

\* load_crsreports_dot_congress_dot_gov_reports: one file of sorted(glob(...))
LoadCongress(cfiles) ==
    /\ pc = "congress"
    /\ nread < MaxRecords
    /\ \E file \in cfiles :
         Step(LoadCongressRecord(reports, file, hashcache),
              "load_crsreports_dot_congress_dot_gov_reports", "congress")

\* The last loader returns; read_reports_metadata sorts, transforms and returns.
Collate ==
    /\ pc = "congress"
    /\ IF LacksSortKey(reports)
       THEN /\ pc' = "aborted"
            /\ error' = [exc |-> "KeyError", at |-> "read_reports_metadata"]
            /\ UNCHANGED reportsList
       ELSE /\ pc' = "read_done"
            /\ reportsList' = CollateReports(reports)
            /\ UNCHANGED error
    /\ offered' = <<>>
    /\ UNCHANGED <<pool, page, site, run, denylist, incoming, withheld_reports, reports, all_files, nread,
                   hashcache, disk, prev, written, unlinked>>

\* ----------------------------------------------------------- specification
NoIncoming == [crs |-> <<>>, unt |-> <<>>, congress |-> <<>>]

\* No pool has been made and no page is being sanitized.
NoPool == <<>>

NoPage == <<>>

\* No script of the web site is running.
NoSite == <<>>

\* The state in which a run of process_incoming starts.
InitRun ==
    /\ pc = "start"
    /\ pool = NoPool
    /\ page = NoPage
    /\ site = NoSite
    /\ withheld_reports = {}
    /\ reports = EmptyReports
    /\ reportsList = <<>>
    /\ all_files = {}
    /\ error = NoError
    /\ nread = 0
    /\ offered = <<>>
    /\ written = {}
    /\ unlinked = {}

\* A first run on an empty output directory; the raw records are chosen as
\* they are read.
Init ==
    /\ InitRun
    /\ run = 1
    /\ denylist = NoDenylist
    /\ incoming = NoIncoming
    /\ hashcache = <<>>
    /\ disk = <<>>
    /\ prev = <<>>

\* read_reports_metadata on well-formed inputs of all three sources.
Next ==
    \/ ReadDenylist
    \/ LoadCrs(CrsDocs)
    \/ CrsEnd
    \/ LoadUnt(UntDocs)
    \/ UntEnd
    \/ LoadCongress(CongressFiles)
    \/ Collate

Spec == Init /\ [][Next]_vars

\* ====================================================== the whole pipeline
\* The runs of process_incoming.py over inputs that do not change: each
\* function that __main__ calls is one step.

INCOMING_FILES == "incoming/files"
CONGRESS_INCOMING_FILES == "incoming/crsreports.congress.gov/files"

\* os.path.join(INCOMING_DIR, version.get("source_dir", ""), "files/...")
IncomingDir(version) ==
    IF version.source_dir = "" THEN INCOMING_FILES ELSE CONGRESS_INCOMING_FILES

\* ------------------------------------------------- read_reports_metadata
\* One loop iteration of the named loader on the loaders' shared state st.
LoaderStep(st, loader, doc, withheld) ==
    LET o == CASE loader = "load_crs_dot_gov_reports" ->
                    LoadCrsDotGovRecord(st.rs, doc, withheld, st.cache)
               [] loader = "load_unt_reports" ->
                    LoadUntRecord(st.rs, doc, st.cache, Names(st.disk, REPORTS_FILES))
               [] OTHER ->
                    LoadCongressRecord(st.rs, doc, st.cache)
    IN  [rs |-> o.rs, cache |-> o.cache, disk |-> DiskAfter(st.disk, o),
         written |-> st.written \cup WrittenBy(o), n |-> st.n + 1,
         err |-> IF o.err = "" THEN NoError ELSE [exc |-> o.err, at |-> loader]]

\* A loader's loop over its raw records; an exception ends the run.
RECURSIVE RunLoader(_, _, _, _)
RunLoader(st, loader, docs, withheld) ==
    IF docs = <<>> \/ st.err # NoError THEN st
    ELSE RunLoader(LoaderStep(st, loader, Head(docs), withheld), loader, Tail(docs), withheld)

\* The three loaders in the order read_reports_metadata calls them.
RunLoaders(st, inc, withheld) ==
    RunLoader(RunLoader(RunLoader(st, "load_crs_dot_gov_reports", inc.crs, withheld),
                        "load_unt_reports", inc.unt, withheld),
              "load_crsreports_dot_congress_dot_gov_reports", inc.congress, withheld)

\* ------------------------------------------------------------ iter_files
RECURSIVE Flatten(_)
Flatten(ss) == IF ss = <<>> THEN <<>> ELSE Head(ss) \o Flatten(Tail(ss))

\* list(iter_files()): every format entry of every version, the versions of a
\* report in reversed order, as indexes [r, v, f] into the list of reports.
IterFiles(list) ==
    Flatten([r \in 1..Len(list) |->
        Flatten([k \in 1..Len(list[r].versions) |->
            LET v == Len(list[r].versions) + 1 - k
            IN  [f \in 1..Len(list[r].versions[v].formats) |-> [r |-> r, v |-> v, f |-> f]]])])

\* ----------------------------------------------------------- clean_files
\* The tools fail on a file whose bytes are not a document ("c2").
Corrupt(file) == file.bytes = "c2"

\* Mutant: make_link without the check that the two names are one inode
\* already: the link is always replaced.
MakeLinkAlways(cs, fn1, fn2) ==
    [cs EXCEPT !.disk = WriteFile(cs.disk, fn2, cs.disk[fn1]),
               !.written = @ \cup {fn2},
               !.unlinked = IF fn2 \in DOMAIN cs.disk THEN @ \cup {fn2} ELSE @]

\* make_link(fn1, fn2) on the cleaning state cs.
MakeLink(cs, fn1, fn2) ==
    IF fn2 \in DOMAIN cs.disk /\ cs.disk[fn2].inode = cs.disk[fn1].inode THEN cs
    ELSE [cs EXCEPT !.disk = WriteFile(cs.disk, fn2, cs.disk[fn1]),
                    !.written = @ \cup {fn2},
                    !.unlinked = IF fn2 \in DOMAIN cs.disk THEN @ \cup {fn2} ELSE @]

\* A clean_html that opens its output file before it parses the page.
CleanHtmlOpensFirst(cs, in_fn, out_fn) ==
    IF Corrupt(cs.disk[in_fn])
    THEN [cs EXCEPT !.disk = WriteFile(cs.disk, out_fn, File("empty", "", out_fn)),
                    !.written = @ \cup {out_fn}]
    ELSE [cs EXCEPT !.disk = WriteFile(cs.disk, out_fn,
                                       File("clean_html", cs.disk[in_fn].bytes, out_fn)),
                    !.written = @ \cup {out_fn},
                    !.made = @ \cup {out_fn}]

\* trap_all(clean_html, ...): the cleaned page is written unless parsing fails.
CleanHtml(cs, in_fn, out_fn) ==
    IF Corrupt(cs.disk[in_fn]) THEN cs
    ELSE [cs EXCEPT !.disk = WriteFile(cs.disk, out_fn,
                                       File("clean_html", cs.disk[in_fn].bytes, out_fn)),
                    !.written = @ \cup {out_fn},
                    !.made = @ \cup {out_fn}]

\* The redactor fails on a document that qpdf can read ("c3").
RedactorFails(file) == file.bytes = "c3"

\* "2003-01-01", the date before which a document is posted unredacted:
\* day 1 is before it, day 2 is that day.
CutoffDate == DateStr(2, NoTime)

\* redact_pdf without the branch for old documents: every failure of the
\* redactor leaves the function.
RedactPdfStrict(cs, in_fn, out_fn, version) ==
    IF Corrupt(cs.disk[in_fn]) \/ RedactorFails(cs.disk[in_fn]) THEN cs
    ELSE [cs EXCEPT !.disk = WriteFile(cs.disk, out_fn,
                                       File("redacted", cs.disk[in_fn].bytes, out_fn)),
                    !.written = @ \cup {out_fn},
                    !.made = @ \cup {out_fn}]

\* redact_pdf: qpdf fails on a corrupt file and the exception leaves the
\* function before anything is written.  When the redactor fails, the
\* decompressed document takes the place of the redacted one if the version
\* is dated before the cutoff, and the exception leaves the function
\* otherwise.  What is written has the addendum page at its end.
RedactPdf(cs, in_fn, out_fn, version) ==
    LET file == cs.disk[in_fn]
        kind == IF RedactorFails(file) THEN "unredacted" ELSE "redacted"
    IN  IF Corrupt(file) THEN cs
        ELSE IF RedactorFails(file) /\ ~StrLess(version.date, CutoffDate) THEN cs
        ELSE [cs EXCEPT !.disk = WriteFile(cs.disk, out_fn, File(kind, file.bytes, out_fn)),
                        !.written = @ \cup {out_fn},
                        !.made = @ \cup {out_fn}]

\* A clean_pdf that redacts the PDF of every source.
CleanPdfRedactAll(cs, in_fn, out_fn, version) == RedactPdf(cs, in_fn, out_fn, version)

\* trap_all(clean_pdf, ...)
CleanPdf(cs, in_fn, out_fn, version) ==
    IF version.source = INCOMING_SOURCE THEN RedactPdf(cs, in_fn, out_fn, version)
    ELSE IF version.source \in {UNT_SOURCE_STRING, CONGRESS_SOURCE}
         THEN [MakeLink(cs, in_fn, out_fn) EXCEPT !.made = @ \cup {out_fn}]
    ELSE cs

\* Lines 512-517: the images of an HTML entry are linked into the output.
RECURSIVE LinkImages(_, _, _)
LinkImages(cs, version, images) ==
    IF images = {} THEN cs
    ELSE LET img == CHOOSE i \in images : TRUE
             img_fn == <<IncomingDir(version), img>>
             linked == IF img_fn \notin DOMAIN cs.disk THEN cs
                       ELSE [MakeLink(cs, img_fn, <<REPORTS_FILES, img>>)
                                EXCEPT !.all = @ \cup {img}]
         IN  LinkImages(linked, version, images \ {img})

\* One iteration of the first loop of clean_files, with the task it submits.
CleanStep(cs, list, it) ==
    LET version == list[it.r].versions[it.v]
        file == version.formats[it.f]
        fn == file.filename
        in_fn == <<IncomingDir(version), fn>>
        out_fn == <<REPORTS_FILES, fn>>
        seen == [cs EXCEPT !.all = @ \cup {fn}]
        cleaned == IF in_fn \in DOMAIN cs.disk /\ out_fn \notin DOMAIN cs.disk
                   THEN IF fn.ext = "html" THEN CleanHtml(seen, in_fn, out_fn)
                        ELSE IF fn.ext = "pdf" THEN CleanPdf(seen, in_fn, out_fn, version)
                        ELSE seen
                   ELSE seen
    IN  IF fn.ext = "html" /\ file.images # {}
        THEN LinkImages(cleaned, version, file.images)
        ELSE cleaned

RECURSIVE CleanLoop(_, _, _)
CleanLoop(cs, list, items) ==
    IF items = <<>> THEN cs
    ELSE CleanLoop(CleanStep(cs, list, Head(items)), list, Tail(items))

\* The names of the PDF entries: the second loop of clean_files visits them.
PdfNames(list) ==
    LET items == IterFiles(list)
        name(i) == list[items[i].r].versions[items[i].v].formats[items[i].f].filename
    IN  {name(i) : i \in {j \in 1..Len(items) : name(j).ext = "pdf"}}

\* make_pdf_thumbnail writes <name>.png next to the PDF.
WriteThumbnails(d, names) ==
    [p \in DOMAIN d \cup {<<REPORTS_FILES, ReplaceExt(fn, "png")>> : fn \in names} |->
        IF p \in DOMAIN d THEN d[p]
        ELSE File("png", d[<<REPORTS_FILES, ReplaceExt(p[2], "pdf")>>].bytes, p)]

\* ------------------------------------------------ add_missing_html_formats
\* formats[kind] of the dict comprehension: the last entry of that kind.
LastOfKind(formats, kind) ==
    formats[CHOOSE i \in 1..Len(formats) :
                /\ formats[i].format = kind
                /\ \A j \in (i+1)..Len(formats) : formats[j].format # kind].filename

\* One iteration of the loop of add_missing_html_formats on hs = [list, disk,
\* all, written].
HtmlStep(hs, it) ==
    LET version == hs.list[it.r].versions[it.v]
        file == version.formats[it.f]
        pdf_fn == <<REPORTS_FILES, LastOfKind(version.formats, "PDF")>>
        html_fn == ReplaceExt(file.filename, "html")
        out_fn == <<REPORTS_FILES, html_fn>>
        seen == [hs EXCEPT !.all = @ \cup {html_fn}]
        added == [seen EXCEPT !.list[it.r].versions[it.v].formats =
                                  Append(@, Format("HTML", html_fn, {}))]
    IN  IF \E j \in 1..Len(version.formats) : version.formats[j].format = "HTML" THEN hs
        ELSE IF file.format = "PDF" /\ pdf_fn \in DOMAIN hs.disk
        THEN IF out_fn \in DOMAIN hs.disk THEN added
             ELSE IF Corrupt(hs.disk[pdf_fn]) THEN seen
             ELSE [added EXCEPT !.disk = WriteFile(@, out_fn,
                                             File("pdftotext", hs.disk[pdf_fn].bytes, out_fn)),
                                !.written = @ \cup {out_fn}]
        ELSE hs

RECURSIVE HtmlLoop(_, _)
HtmlLoop(hs, items) ==
    IF items = <<>> THEN hs ELSE HtmlLoop(HtmlStep(hs, Head(items)), Tail(items))

\* -------------------------------------------------- write_reports_metadata
\* Lines 84-93: every report is written to reports/reports/<id>.json.
RECURSIVE WriteReports(_, _)
WriteReports(d, list) ==
    IF list = <<>> THEN d
    ELSE WriteReports(WriteFile(d, <<REPORTS_REPORTS, Head(list).id>>,
                                File("json", Head(list), <<REPORTS_REPORTS, Head(list).id>>)),
                      Tail(list))

ReportPaths(list) == {<<REPORTS_REPORTS, list[i].id>> : i \in 1..Len(list)}

\* Lines 96-101: the files under reports/reports that were not just written.
OrphanedReports(d, list) ==
    {p \in DOMAIN d : p[1] = REPORTS_REPORTS} \ ReportPaths(list)

\* __main__, lines 898-904: the files under reports/files that are not in all_files.
OrphanedFiles(d, all) == Names(d, REPORTS_FILES) \ all

\* ----------------------------------------------------------- the inputs
\* The most raw records in the three sources together, and the number of runs.
MaxIncoming == 2
MaxRuns == 2

R9 == <<"R", "9">>

\* An image that a scraped HTML page refers to.
ImageName == FileName("image", 1, R1, Sha1("c1"), "png")

\* A crs.gov document with the given report number and format entries.
CrsDocWith(number, formats) ==
    CrsDoc(TRUE, number, DateStr(1, Midnight), [t |-> 1, frac |-> TRUE],
           "REPORTS", "CRS Report", "Active", TRUE, formats)

PdfEntry(style, day, number, content) ==
    Format("PDF", FileName(style, day, number, Sha1(content), "pdf"), {})

HtmlEntry(day, number, content, images) ==
    Format("HTML", FileName("compact", day, number, Sha1(content), "html"), images)

\* incoming/documents/*.json: well-formed documents (one with a scraped HTML
\* page and an image, one whose PDF is corrupt, one with a lower-case report
\* number), and documents that are malformed in one way each.
MainCrsDocs ==
    { CrsDocWith(R1, <<PdfEntry("compact", 1, R1, "c1"),
                       HtmlEntry(1, R1, "c1", {ImageName})>>),
      CrsDocWith(R2, <<PdfEntry("compact", 1, R2, "c1")>>),
      CrsDocWith(R2, <<PdfEntry("compact", 1, R2, "c2")>>),
      CrsDocWith(R1Lower, <<PdfEntry("compact", 1, R1Lower, "c1")>>),
      [CrsDocWith(R1, <<>>) EXCEPT !.json = FALSE],
      [CrsDocWith(R1, <<>>) EXCEPT !.ProdTypeGroupCode = "BLOG"],
      [CrsDocWith(R1, <<>>) EXCEPT !.CoverDate = DateStr(1, NoTime)],
      [CrsDocWith(R1, <<>>) EXCEPT !.fetched = [t |-> 1, frac |-> FALSE]],
      [CrsDocWith(R1, <<>>) EXCEPT !.hasTitle = FALSE] }

\* The records of the UNT archive: two records whose PDFs are the same bytes
\* under different member names, report numbers and dates; a corrupt PDF; an
\* identifier with a space, a lower-case one, one that ends in a line break;
\* unparseable metadata.
MainUntDocs ==
    { GoodUntDoc(R2, "YMD", 1, 1, "a/report.pdf"),
      GoodUntDoc(R1, "YMD", MaxDay, 1, "b/scan.pdf"),
      GoodUntDoc(R2, "YMD", 1, 1, "b/scan.pdf"),
      GoodUntDoc(R1Space, "YM", 1, 1, "c/other.pdf"),
      GoodUntDoc(R1Lower, "YMD", 1, 1, "a/report.pdf"),
      GoodUntDoc(R1Newline, "YMD", 1, 1, "a/report.pdf"),
      [GoodUntDoc(R1, "YMD", 1, 1, "a/report.pdf") EXCEPT !.xml = FALSE] }

\* incoming/crsreports.congress.gov/documents/*.json
MainCongressFiles ==
    { GoodCongressFile(R2, 1, 1),
      GoodCongressFile(R1Lower, 1, 1),
      [GoodCongressFile(R1, 1, 1) EXCEPT !.json = FALSE],
      [GoodCongressFile(R1, 1, 1) EXCEPT !.fnMatches = FALSE],
      CongressFile(TRUE, TRUE, R1, CongressRecord(R1, 1, 1, {"date"})) }

\* The raw records of the three sources, each in the order its loader reads
\* them: every choice of at most MaxIncoming records.
Incomings ==
    LET sizes == {t \in (0..MaxIncoming) \X (0..MaxIncoming) \X (0..MaxIncoming) :
                     t[1] + t[2] + t[3] <= MaxIncoming}
    IN  UNION {[crs : [1..t[1] -> MainCrsDocs],
                unt : [1..t[2] -> MainUntDocs],
                congress : [1..t[3] -> MainCongressFiles]] : t \in sizes}

\* The names of the files that format entries refer to.
FormatFiles(formats) ==
    {formats[i].filename : i \in 1..Len(formats)}
    \cup UNION {formats[i].images : i \in 1..Len(formats)}

\* The files that the scrapers left under incoming/ for the raw records.
IncomingFiles(inc) ==
    LET crs == UNION {FormatFiles(inc.crs[i].FormatList) : i \in 1..Len(inc.crs)}
        congress == UNION {FormatFiles(inc.congress[i].doc.formats) : i \in 1..Len(inc.congress)}
        paths == {<<INCOMING_FILES, fn>> : fn \in crs}
                 \cup {<<CONGRESS_INCOMING_FILES, fn>> : fn \in congress}
    IN  [p \in paths |-> File("raw", p[2].sha1[2], p)]

\* withheld-reports.txt: report R2 with an annotation, and without one.
AnnotatedDenylist == << R2 \o <<"\t", "x", "\n">> >>
BareDenylist == << R2 \o <<"\n">> >>

\* What earlier runs left under reports/: nothing, the JSON of a report that no
\* source holds any more, a file that no report refers to any more.
NoOutput == <<>>
OrphanJson ==
    [p \in {<<REPORTS_REPORTS, R9>>} |-> File("json", [id |-> R9], <<REPORTS_REPORTS, R9>>)]
OrphanFile ==
    LET p == <<REPORTS_FILES, FileName("compact", 1, R9, Sha1("c1"), "pdf")>>
    IN  [q \in {p} |-> File("redacted", "c1", p)]

Setups ==
    { [denylist |-> NoDenylist, output |-> NoOutput],
      [denylist |-> NoDenylist, output |-> OrphanJson],
      [denylist |-> NoDenylist, output |-> OrphanFile],
      [denylist |-> AnnotatedDenylist, output |-> NoOutput],
      [denylist |-> BareDenylist, output |-> NoOutput] }

\* ------------------------------------------------------------ the steps
\* reports = read_reports_metadata()
ReadReportsMetadata ==
    /\ pc = "start"
    /\ LET withheld == ReadWithheldReports(denylist)
           st == RunLoaders([rs |-> EmptyReports, cache |-> hashcache, disk |-> disk,
                             written |-> written, n |-> 0, err |-> NoError],
                            incoming, withheld)
       IN  /\ withheld_reports' = withheld
           /\ reports' = st.rs
           /\ hashcache' = st.cache
           /\ disk' = st.disk
           /\ written' = st.written
           /\ nread' = st.n
           /\ IF st.err # NoError
              THEN /\ pc' = "aborted"
                   /\ error' = st.err
                   /\ UNCHANGED reportsList
              ELSE IF LacksSortKey(st.rs)
              THEN /\ pc' = "aborted"
                   /\ error' = [exc |-> "KeyError", at |-> "read_reports_metadata"]
                   /\ UNCHANGED reportsList
              ELSE /\ pc' = "read_done"
                   /\ reportsList' = CollateReports(st.rs)
                   /\ UNCHANGED error
    /\ UNCHANGED <<pool, page, site, run, denylist, incoming, all_files, offered, prev, unlinked>>

\* clean_files(reports, all_files).  A thumbnail task reads a PDF that a
\* cleaning task of the same pool writes; nothing orders the two, so the
\* thumbnail of a PDF made in this run may or may not come about.
CleanFiles ==
    /\ pc = "read_done"
    /\ LET cs == CleanLoop([disk |-> disk, all |-> all_files, written |-> written,
                            unlinked |-> unlinked, made |-> {}],
                           reportsList, IterFiles(reportsList))
           pdfs == PdfNames(reportsList)
           tasks == {fn \in pdfs : <<REPORTS_FILES, ReplaceExt(fn, "png")>> \notin DOMAIN cs.disk}
           readable == {fn \in tasks : /\ <<REPORTS_FILES, fn>> \in DOMAIN cs.disk
                                       /\ ~Corrupt(cs.disk[<<REPORTS_FILES, fn>>])}
           racing == {fn \in readable : <<REPORTS_FILES, fn>> \in cs.made}
       IN  \E lost \in SUBSET racing :
             /\ disk' = WriteThumbnails(cs.disk, readable \ lost)
             /\ written' = cs.written
                    \cup {<<REPORTS_FILES, ReplaceExt(fn, "png")>> : fn \in readable \ lost}
             /\ unlinked' = cs.unlinked
             /\ all_files' = cs.all \cup {ReplaceExt(fn, "png") : fn \in pdfs}
    /\ pc' = "cleaned"
    /\ UNCHANGED <<pool, page, site, run, denylist, incoming, withheld_reports, reports, reportsList, error,
                   nread, offered, hashcache, prev>>

\* add_missing_html_formats(reports, all_files)
AddMissingHtmlFormats ==
    /\ pc = "cleaned"
    /\ LET hs == HtmlLoop([list |-> reportsList, disk |-> disk, all |-> all_files,
                           written |-> written], IterFiles(reportsList))
       IN  /\ reportsList' = hs.list
           /\ disk' = hs.disk
           /\ all_files' = hs.all
           /\ written' = hs.written
    /\ pc' = "html_added"
    /\ UNCHANGED <<pool, page, site, run, denylist, incoming, withheld_reports, reports, error, nread, offered,
                   hashcache, prev, unlinked>>

\* write_reports_metadata(reports): every report is written, then the first
\* orphaned file found raises ValueError; the os.unlink after the raise is
\* never reached.
WriteReportsMetadata ==
    /\ pc = "html_added"
    /\ disk' = WriteReports(disk, reportsList)
    /\ written' = written \cup ReportPaths(reportsList)
    /\ IF OrphanedReports(disk', reportsList) # {}
       THEN /\ pc' = "aborted"
            /\ error' = [exc |-> "ValueError", at |-> "write_reports_metadata"]
       ELSE /\ pc' = "written"
            /\ UNCHANGED error
    /\ UNCHANGED <<pool, page, site, run, denylist, incoming, withheld_reports, reports, reportsList, all_files,
                   nread, offered, hashcache, prev, unlinked>>

\* __main__, lines 898-904: the first orphaned file found raises ValueError;
\* the os.unlink after the raise is never reached.
DeleteOrphanedFiles ==
    /\ pc = "written"
    /\ IF OrphanedFiles(disk, all_files) # {}
       THEN /\ pc' = "aborted"
            /\ error' = [exc |-> "ValueError", at |-> "__main__"]
       ELSE /\ pc' = "done"
            /\ UNCHANGED error
    /\ UNCHANGED <<pool, page, site, run, denylist, incoming, withheld_reports, reports, reportsList, all_files,
                   nread, offered, hashcache, disk, prev, written, unlinked>>

\* The script is run again on the same inputs; the output directory and the
\* hash cache are as the run before left them.
NextRun ==
    /\ pc \in {"done", "aborted"}
    /\ run < MaxRuns
    /\ run' = run + 1
    /\ prev' = disk
    /\ pc' = "start"
    /\ withheld_reports' = {}
    /\ reports' = EmptyReports
    /\ reportsList' = <<>>
    /\ all_files' = {}
    /\ error' = NoError
    /\ nread' = 0
    /\ offered' = <<>>
    /\ written' = {}
    /\ unlinked' = {}
    /\ UNCHANGED <<pool, page, site, denylist, incoming, hashcache, disk>>

\* The first run: some raw records, a denylist, and what is under reports/.
InitMain ==
    /\ InitRun
    /\ run = 1
    /\ \E setup \in Setups :
         /\ denylist = setup.denylist
         /\ \E inc \in Incomings :
              /\ incoming = inc
              /\ disk = setup.output @@ IncomingFiles(inc)
    /\ hashcache = <<>>
    /\ prev = disk

NextMain ==
    \/ ReadReportsMetadata
    \/ CleanFiles
    \/ AddMissingHtmlFormats
    \/ WriteReportsMetadata
    \/ DeleteOrphanedFiles
    \/ NextRun

SpecMain == InitMain /\ [][NextMain]_vars

\* ===================================================== the stores of PDFs
\* The two places that name a PDF by the hash of its bytes and store it:
\* load_unt_reports (into reports/files) and the scraper's fetch_report_version
\* (into incoming/crsreports.congress.gov/files).  The output directory and the
\* hash cache outlive a collation; the dictionary of reports does not.

\* The most stores, and the highest sequence number of a report version.
MaxStores == 2
MaxSeq == 2

CONGRESS_DOCUMENTS == "incoming/crsreports.congress.gov/documents"

\* The records of the archive: every report, day and PDF member.
StoreUntDocs ==
    {GoodUntDoc(n, "YMD", d, 1, m) : n \in {R1, R2}, d \in Days, m \in ArchiveMembers}

\* scrape_crs_website.py line 124: the name the scraper stores a PDF under.
ScraperFileName(cover_date, number, content) ==
    FileName("iso", cover_date, number, Sha1(content), "pdf")

\* What a store was asked to store and where it put it.
StoreRequest(storer, dir, original, bytes, number, day, name, stored) ==
    [storer |-> storer, dir |-> dir, original |-> original, bytes |-> bytes,
     number |-> number, day |-> day, name |-> name, stored |-> stored]

\* load_unt_reports stores the PDF of one record of the archive.
StoreUnt ==
    /\ pc = "store"
    /\ nread < MaxStores
    /\ \E doc \in StoreUntDocs :
         LET o == LoadUntRecord(reports, doc, hashcache, Names(disk, REPORTS_FILES))
         IN  /\ reports' = o.rs
             /\ hashcache' = o.cache
             /\ disk' = DiskAfter(disk, o)
             /\ written' = WrittenBy(o)
             /\ offered' = StoreRequest("load_unt_reports", REPORTS_FILES, doc.pdf,
                                        ArchiveContent(doc.pdf),
                                        RemoveChar(doc.identifier, " "),
                                        MadeUpDay(doc.creation),
                                        UntFileName(doc, hashcache), o.rs # reports)
    /\ nread' = nread + 1
    /\ UNCHANGED <<pool, page, site, pc, run, denylist, incoming, withheld_reports, reportsList, all_files,
                   error, prev, unlinked>>

\* A later run of process_incoming: read_reports_metadata starts from an
\* empty dictionary.
NewCollation ==
    /\ pc = "store"
    /\ reports # EmptyReports
    /\ reports' = EmptyReports
    /\ offered' = <<>>
    /\ written' = {}
    /\ UNCHANGED <<pool, page, site, pc, run, denylist, incoming, withheld_reports, reportsList, all_files,
                   error, nread, hashcache, disk, prev, unlinked>>

\* scrape_crs_website.py, fetch_report_version(doc, seq, cover_date): content
\* is what the download of the PDF returns.
FetchReportVersion ==
    /\ pc = "store"
    /\ nread < MaxStores
    /\ \E number \in {R1, R2}, seq \in 1..MaxSeq, cover_date \in Days, content \in Contents :
         LET json_fn == <<CONGRESS_DOCUMENTS, [number |-> number, seq |-> seq, day |-> cover_date]>>
             fetched == json_fn \in DOMAIN disk
             download == \/ ~fetched
                         \/ <<CONGRESS_INCOMING_FILES, disk[json_fn].bytes.filename>>
                                \notin DOMAIN disk
             pdf_file == IF download THEN ScraperFileName(cover_date, number, content)
                         ELSE disk[json_fn].bytes.filename
             pdf_fn == <<CONGRESS_INCOMING_FILES, pdf_file>>
             saved == IF download THEN WriteFile(disk, pdf_fn, File("raw", content, pdf_fn))
                      ELSE disk
         IN  /\ disk' = WriteFile(saved, json_fn,
                                  File("json", [filename |-> pdf_file, sha1 |-> pdf_file.sha1],
                                       json_fn))
             /\ written' = IF download THEN {pdf_fn, json_fn} ELSE {json_fn}
             /\ offered' = StoreRequest("fetch_report_version", CONGRESS_INCOMING_FILES, seq,
                                        IF download THEN content ELSE disk[pdf_fn].bytes,
                                        number, cover_date, pdf_file, download)
    /\ nread' = nread + 1
    /\ UNCHANGED <<pool, page, site, pc, run, denylist, incoming, withheld_reports, reports, reportsList,
                   all_files, error, hashcache, prev, unlinked>>

InitStore ==
    /\ pc = "store"
    /\ pool = NoPool
    /\ page = NoPage
    /\ site = NoSite
    /\ run = 1
    /\ denylist = NoDenylist
    /\ incoming = NoIncoming
    /\ withheld_reports = {}
    /\ reports = EmptyReports
    /\ reportsList = <<>>
    /\ all_files = {}
    /\ error = NoError
    /\ nread = 0
    /\ offered = <<>>
    /\ hashcache = <<>>
    /\ disk = <<>>
    /\ prev = <<>>
    /\ written = {}
    /\ unlinked = {}

NextStore ==
    \/ StoreUnt
    \/ NewCollation
    \/ FetchReportVersion

SpecStore == InitStore /\ [][NextStore]_vars

\* ------------------------------------------------------- clean_html: text
\* Text is a sequence of pieces that stand next to each other without a gap;
\* a piece is one of the strings below.
Email == "jdoe@crs.loc.gov"

EmailUpper == "JDOE@CRS.GOV"

Ext == "7-1234"

Phone == "(202) 555-1234"

Digit == "200"

Word == " text "

AuthorName == "Jane Doe"

PrintVersion == "Print Version"

EmailMarker == "[email address scrubbed]"

PhoneMarker == "[phone number scrubbed]"

\* The pieces whose last character is a digit.
EndsInDigit(piece) == piece \in {Digit, Ext, Phone}

\* scrub_text: the three substitutions, in their order.  The first matches a
\* lower-case crs.gov or crs.loc.gov domain only; the second leaves a 7-xxxx
\* alone when a digit stands before it.
ScrubText(text) ==
    [i \in 1..Len(text) |->
        CASE text[i] = Email -> EmailMarker
          [] text[i] = Ext   -> IF i > 1 /\ EndsInDigit(text[i-1]) THEN Ext ELSE PhoneMarker
          [] text[i] = Phone -> PhoneMarker
          [] OTHER           -> text[i]]

\* ------------------------------------------------------- clean_html: tree
\* An href is <<scheme, rest>>, and <<>> when the attribute is absent.
NoHref == <<>>

MailtoHref == <<"mailto:", Email>>

MailtoUpperHref == <<"MAILTO:", EmailUpper>>

WebHref == <<"http:", "//example.com/">>

ScriptHref == <<"javascript:", "alert(1)">>

CrsReportHref == <<"http:", "//www.crs.gov/Reports/R40000">>

EveryCrsReportHref == <<"https:", "//www.everycrsreport.com/reports/R40000.html">>

\* str.lower of a scheme.
Lower(scheme) == IF scheme = "MAILTO:" THEN "mailto:" ELSE scheme

\* file_metadata["images"]: the image sources that were scraped, and where
\* the scraped copy is published.
ImageSrc == "image1.png"

OtherImageSrc == "image2.png"

WebImageSrc == "http://example.com/i.png"

ScrapedImage == "/files/image1.png"

Images == {ImageSrc}

\* A node of the parsed page.  An absent attribute is "" (href: <<>>).
Element(tag, class, href, src, title, onclick, text, tail, children) ==
    [id |-> <<>>, kind |-> "element", tag |-> tag, class |-> class, href |-> href,
     src |-> src, title |-> title, onclick |-> onclick, name |-> "", colspan |-> "",
     text |-> text, tail |-> tail, children |-> children]

Comment(text, tail) ==
    [id |-> <<>>, kind |-> "comment", tag |-> "", class |-> {}, href |-> NoHref,
     src |-> "", title |-> "", onclick |-> "", name |-> "", colspan |-> "",
     text |-> text, tail |-> tail, children |-> <<>>]

\* Every node is known by its place in the parsed page.
RECURSIVE Relabel(_, _)
Relabel(n, path) ==
    [n EXCEPT !.id = path,
              !.children = [i \in 1..Len(n.children) |->
                               Relabel(n.children[i], Append(path, i))]]

allowed_classes == {"ReportHeader"}

HeadingTags == {"h1", "h2", "h3", "h4", "h5"}

\* "h" + str(int(tag[1:]) + 1)
Demote(tag) ==
    CASE tag = "h1" -> "h2" [] tag = "h2" -> "h3" [] tag = "h3" -> "h4"
      [] tag = "h4" -> "h5" [] tag = "h5" -> "h6" [] OTHER -> tag

HeadingClasses == {"Heading1", "Heading2", "Heading3", "Heading4", "Heading5"}

\* The tag a heading class turns an element into.
HeadingOf(cls) ==
    CASE cls = "Heading1" -> "h2" [] cls = "Heading2" -> "h3" [] cls = "Heading3" -> "h4"
      [] cls = "Heading4" -> "h5" [] cls = "Heading5" -> "h6" [] OTHER -> "h2"

\* The children of a ReportHeader: the title becomes an h1, the cover date
\* stays, every other child is removed.
HeaderChild(node) == IF "Title" \in node.class THEN [node EXCEPT !.tag = "h1"] ELSE node

KeptInHeader(node) == "Title" \in node.class \/ "CoverDate" \in node.class

\* A test for mailto: that minds the case of the letters.
IsMailtoExact(href) == href # NoHref /\ href[1] = "mailto:"

IsMailto(href) == href # NoHref /\ Lower(href[1]) = "mailto:"

\* The input pages carry at most one heading class on an element; with
\* several, the order in which Python walks the set decides.
\* One pass of the loop body over an element: the element as the pass leaves
\* it (its children all still listed), the children the pass has removed,
\* whether the element removed itself from its parent, and whether the pass
\* raised.  attached: the element still has a parent when the loop reaches it.
CleanElement(n0, attached) ==
    LET css == n0.class
        text1 == ScrubText(n0.text)
        tail1 == ScrubText(n0.tail)
        header == "ReportHeader" \in css
        kids == IF header
                THEN [i \in 1..Len(n0.children) |-> HeaderChild(n0.children[i])]
                ELSE n0.children
        gone1 == IF header THEN {i \in 1..Len(kids) : ~KeptInHeader(kids[i])} ELSE {}
        titleline == "titleline" \in css
        css2 == IF titleline THEN css \cup {"Title"} ELSE css
        tag2 == IF titleline THEN "h1" ELSE n0.tag
        author == "authorline" \in css
        print == tag2 = "a" /\ text1 = <<PrintVersion>>
        \* getparent() is None for an element that was removed before
        noParent == (author /\ ~attached) \/ (print /\ (author \/ ~attached))
        mailto == IsMailto(n0.href)
        tag3 == IF mailto THEN "span" ELSE tag2
        href3 == IF mailto THEN NoHref ELSE n0.href
        text3 == IF mailto THEN <<EmailMarker>> ELSE text1
        gone2 == IF mailto THEN 1..Len(kids) ELSE gone1
        \* tag.attrib["src"] of an img without src
        noSrc == tag3 = "img" /\ n0.src = ""
        src4 == IF tag3 = "img" /\ n0.src \in Images THEN ScrapedImage ELSE n0.src
        href5 == IF tag3 = "a" /\ href3 = CrsReportHref THEN EveryCrsReportHref ELSE href3
        tag6 == IF tag3 \in HeadingTags /\ "Title" \notin css2 THEN Demote(tag3) ELSE tag3
        tag7 == IF "SummaryHeading" \in css2 THEN "h2"
                ELSE IF css2 \cap HeadingClasses # {}
                     THEN HeadingOf(CHOOSE cls \in css2 \cap HeadingClasses : TRUE)
                     ELSE tag6
    IN  [raise |-> noParent \/ noSrc,
         keep |-> ~author /\ ~print,
         gone |-> gone2,
         node |-> [n0 EXCEPT !.tag = tag7, !.class = css \cap allowed_classes,
                             !.href = href5, !.src = src4, !.text = text3,
                             !.tail = tail1, !.children = kids]]

\* The results that stay in the tree, in their order.
StaysAttached(r) == r.keep

NodeOf(results) == [i \in 1..Len(results) |-> results[i].node]

\* The loop over the element and its descendants in document order.  A node
\* that was removed is still visited, because the list was made beforehand,
\* but neither it nor its tail is part of the tree any more.  Comments are
\* skipped, their tail with them.
RECURSIVE CleanNode(_, _)
CleanNode(n, attached) ==
    IF n.kind = "comment"
    THEN [raise |-> FALSE, keep |-> TRUE, node |-> n]
    ELSE LET e == CleanElement(n, attached)
             kids == e.node.children
             sub == [i \in 1..Len(kids) |->
                        LET r == CleanNode(kids[i], i \notin e.gone)
                        IN  [raise |-> r.raise, keep |-> r.keep /\ i \notin e.gone,
                             node |-> r.node]]
         IN  [raise |-> e.raise \/ \E i \in 1..Len(kids) : sub[i].raise,
              keep |-> e.keep,
              node |-> [e.node EXCEPT !.children = NodeOf(SelectSeq(sub, StaysAttached))]]

\* ----------------------------------------------------- clean_html: bleach
AllowedTags ==
    {"a", "img", "b", "strong", "i", "em", "u", "sup", "sub", "span", "div", "p", "br",
     "ul", "ol", "li", "table", "thead", "tbody", "tr", "th", "td", "hr",
     "h1", "h2", "h3", "h4", "h5", "h6"}

StartsWithHttp(value) == value = WebImageSrc

\* A filter of links that knows nothing of link targets.
LinkFilterHrefOnly(name, href) ==
    \/ name = "class"
    \/ name = "href" /\ href # NoHref /\ href[1] \in {"http:", "https:", "#"}

link_filter(name, href) ==
    \/ name \in {"name", "class"}
    \/ name = "href" /\ href # NoHref /\ href[1] \in {"http:", "https:", "#"}

\* A source that the loop rewrote is in whitelisted_image_paths.
image_filter(name, value) ==
    \/ name = "class"
    \/ name = "src" /\ (StartsWithHttp(value) \/ value = ScrapedImage)

\* An attribute filter that lets everything through.
AttributeKeptAlways(tag, name, value) == TRUE

\* bleach's attribute filter for the attributes argument of the call: the
\* callable of a tag decides alone, the list of a table cell comes on top
\* of the "*" list, every other tag has the "*" list.
AttributeKept(tag, name, value) ==
    CASE tag = "a"   -> link_filter(name, value)
      [] tag = "img" -> image_filter(name, value)
      [] OTHER       -> \/ tag \in {"td", "th"} /\ name \in {"colspan", "rowspan"}
                        \/ name \in {"title", "class"}

\* bleach.clean as it is called, with strip left at its default: an
\* element whose tag is allowed stays markup and loses the attributes that
\* the filter rejects; an element whose tag is not allowed has its tags,
\* attributes included, escaped into text; a comment is taken out.  What is
\* inside and after a node stays in each case.
RECURSIVE Bleach(_)
Bleach(n) ==
    LET inner == [i \in 1..Len(n.children) |-> Bleach(n.children[i])]
        base == [id |-> n.id, tag |-> n.tag, class |-> n.class, text |-> n.text,
                 tail |-> n.tail, children |-> inner]
    IN  IF n.kind = "comment"
        THEN [base EXCEPT !.text = <<>>]
                  @@ [form |-> "stripped", href |-> NoHref, src |-> "", title |-> "",
                      onclick |-> "", name |-> "", colspan |-> ""]
        ELSE IF n.tag \in AllowedTags
        THEN base @@ [form |-> "markup",
                      href |-> IF AttributeKept(n.tag, "href", n.href) THEN n.href ELSE NoHref,
                      src |-> IF AttributeKept(n.tag, "src", n.src) THEN n.src ELSE "",
                      title |-> IF AttributeKept(n.tag, "title", n.title) THEN n.title ELSE "",
                      onclick |-> IF AttributeKept(n.tag, "onclick", n.onclick)
                                  THEN n.onclick ELSE "",
                      name |-> IF AttributeKept(n.tag, "name", n.name) THEN n.name ELSE "",
                      colspan |-> IF AttributeKept(n.tag, "colspan", n.colspan)
                                  THEN n.colspan ELSE ""]
        ELSE base @@ [form |-> "escaped", href |-> n.href, src |-> n.src,
                      title |-> n.title, onclick |-> n.onclick, name |-> n.name,
                      colspan |-> n.colspan]

\* ------------------------------------------------------- clean_html: page
\* A scraped page: the source of the report, whether the raw bytes hold
\* '<div class="Report"><!DOCTYPE', and the element that the search for the
\* container can find (for a congress.gov page: the body).
Page(source, doctype, body) == [source |-> source, doctype |-> doctype, body |-> body]

\* find(".//*[@class='Report']"), then the ReportContent child of Insightsdiv
IsContainer(node) == node.class \in {{"Report"}, {"ReportContent"}}

Blockquotes(node) == {i \in 1..Len(node.children) : node.children[i].tag = "blockquote"}

\* The element that holds the report, or a ValueError.
Locate(p) ==
    IF p.source = CONGRESS_SOURCE
    THEN [raise |-> FALSE, content |-> [p.body EXCEPT !.tag = "div"]]
    ELSE IF ~IsContainer(p.body)
    THEN [raise |-> TRUE, content |-> p.body]
    ELSE IF ~p.doctype
    THEN [raise |-> FALSE, content |-> p.body]
    ELSE IF Blockquotes(p.body) = {}
    THEN [raise |-> TRUE, content |-> p.body]
    ELSE LET i == CHOOSE j \in Blockquotes(p.body) : \A k \in Blockquotes(p.body) : j <= k
         IN  [raise |-> FALSE, content |-> [p.body.children[i] EXCEPT !.tag = "div"]]

\* clean_html on a page: it raises and writes nothing, or it writes the
\* cleaned tree.  The container is serialized whether or not the loop took
\* it out of the page.
CleanHtmlPage(p) ==
    LET found == Locate(p)
        cleaned == CleanNode(found.content, TRUE)
    IN  IF found.raise \/ cleaned.raise
        THEN [raise |-> TRUE, out |-> <<>>]
        ELSE [raise |-> FALSE, out |-> Bleach(cleaned.node)]

\* ----------------------------------------------------- clean_html: inputs
\* The most children that the report container of an input page has.
MaxChildren == 2

Plain(tag, text, tail, children) ==
    Element(tag, {}, NoHref, "", "", "", text, tail, children)

Classed(tag, class, text, tail, children) ==
    Element(tag, class, NoHref, "", "", "", text, tail, children)

Link(class, href, text, tail, children) ==
    Element("a", class, href, "", "", "", text, tail, children)

Image(src, onclick) == Element("img", {}, NoHref, src, "", onclick, <<>>, <<Word>>, <<>>)

\* The header of a modern report: title, cover date, and an author block
\* with a mail link.
ReportHeader ==
    Classed("div", {"ReportHeader"}, <<>>, <<Word>>,
            << Classed("div", {"Title"}, <<Word>>, <<>>, <<>>),
               Classed("div", {"CoverDate"}, <<Digit>>, <<>>, <<>>),
               Classed("div", {"Authors"}, <<AuthorName>>, <<Phone>>,
                       << Link({}, MailtoHref, <<Email>>, <<Ext>>, <<>>) >>) >>)

\* A header whose author block carries the class of the older reports.
ReportHeaderOld ==
    Classed("div", {"ReportHeader"}, <<>>, <<>>,
            << Classed("div", {"authorline"}, <<AuthorName>>, <<>>, <<>>) >>)

\* What the container of an input page may hold.
Templates ==
    { Plain("p", <<Word, Email>>, <<Ext>>, <<>>),
      Plain("p", <<Digit, Ext>>, <<Phone, Word>>, <<>>),
      Plain("p", <<AuthorName, EmailUpper>>, <<>>, <<>>),
      Plain("h2", <<Word>>, <<>>, <<>>),
      Plain("script", <<Word>>, <<Email>>, <<>>),
      Plain("blockquote", <<Phone>>, <<>>, << Plain("p", <<Ext>>, <<Email>>, <<>>) >>),
      Classed("span", {"authorline"}, <<AuthorName>>, <<Word>>, <<>>),
      Classed("p", {"Heading1"}, <<Word>>, <<>>, <<>>),
      Classed("div", {"titleline"}, <<Word>>, <<>>, <<>>),
      Element("p", {}, NoHref, "", Email, "alert(1)", <<Word>>, <<>>, <<>>),
      Element("font", {}, WebHref, "", Phone, "alert(1)", <<Word>>, <<>>,
              << Plain("b", <<Email>>, <<>>, <<>>) >>),
      Comment(<<AuthorName>>, <<Email>>),
      Link({}, MailtoHref, <<Email>>, <<Phone>>, <<>>),
      Link({}, MailtoUpperHref, <<AuthorName>>, <<>>,
           << Plain("b", <<AuthorName>>, <<Email>>, <<>>),
              Comment(<<Word>>, <<EmailUpper>>),
              Plain("i", <<Word>>, <<>>, << Plain("u", <<Email>>, <<>>, <<>>) >>) >>),
      Link({}, ScriptHref, <<Word>>, <<>>, <<>>),
      Link({}, CrsReportHref, <<Word>>, <<>>, <<>>),
      Link({}, WebHref, <<PrintVersion>>, <<Word>>, <<>>),
      Link({"authorline"}, WebHref, <<PrintVersion>>, <<>>, <<>>),
      Image(ImageSrc, ""),
      Image(OtherImageSrc, "alert(1)"),
      Image(WebImageSrc, ""),
      Image("", ""),
      [Link({}, WebHref, <<Word>>, <<>>, <<>>) EXCEPT !.title = Word, !.name = "toc"],
      [Image(WebImageSrc, "") EXCEPT !.title = Word],
      [Plain("td", <<Word>>, <<>>, <<>>) EXCEPT !.colspan = "2", !.title = Word],
      [Classed("p", {"ReportHeader"}, <<Word>>, <<>>, <<>>)
          EXCEPT !.colspan = "2", !.name = "toc", !.href = WebHref, !.src = WebImageSrc],
      ReportHeader,
      ReportHeaderOld }

\* The sequences over a set of at most n members.
SeqsUpTo(S, n) == UNION {[1..k -> S] : k \in 0..n}

Container(class, children) ==
    Relabel(Classed("div", class, <<Email>>, <<Phone>>, children), <<>>)

\* The pages of crs.gov with a Report container, and the smaller pages of
\* the other shapes: the container of the Insights pages, no container at
\* all, a nested document, and a page of congress.gov.
Pages ==
    {Page(INCOMING_SOURCE, FALSE, Container({"Report"}, kids)) :
        kids \in SeqsUpTo(Templates, MaxChildren)}
    \cup {Page(shape[1], shape[2], Container(shape[3], kids)) :
            shape \in {<<INCOMING_SOURCE, FALSE, {"ReportContent"}>>,
                       <<INCOMING_SOURCE, FALSE, {}>>,
                       <<INCOMING_SOURCE, TRUE, {"Report"}>>,
                       <<CONGRESS_SOURCE, FALSE, {}>>},
            kids \in SeqsUpTo(Templates, 1)}

\* A page waits to be sanitized.
Raw(p) == [in |-> p, done |-> FALSE, raise |-> FALSE, out |-> <<>>]

\* The task of the pool that sanitizes one page: the output file holds the
\* sanitized tree, or the task raised and there is no output file.
clean_html ==
    /\ pc = "html"
    /\ ~page.done
    /\ LET r == CleanHtmlPage(page.in)
       IN  page' = [in |-> page.in, done |-> TRUE, raise |-> r.raise, out |-> r.out]
    /\ UNCHANGED <<pc, run, denylist, incoming, withheld_reports, reports, reportsList,
                   all_files, error, nread, offered, hashcache, disk, prev, written,
                   unlinked, pool, site>>

InitHtml ==
    /\ pc = "html"
    /\ run = 1
    /\ denylist = NoDenylist
    /\ incoming = NoIncoming
    /\ withheld_reports = {}
    /\ reports = EmptyReports
    /\ reportsList = <<>>
    /\ all_files = {}
    /\ error = NoError
    /\ nread = 0
    /\ offered = <<>>
    /\ hashcache = <<>>
    /\ disk = <<>>
    /\ prev = <<>>
    /\ written = {}
    /\ unlinked = {}
    /\ pool = NoPool
    /\ site = NoSite
    /\ page \in {Raw(p) : p \in Pages}

NextHtml == clean_html

SpecHtml == InitHtml /\ [][NextHtml]_vars

\* ------------------------------------------------ clean_files: the pool
\* The worker processes of Pool().
Processes == 2

\* The cleaning loop waits for its oldest task when more than this many are
\* tracked, the thumbnail loop when more than ThumbBacklog are.
CleanBacklog == 20

ThumbBacklog == 5

\* list(iter_files()) with the entry of each index, and the PDF entries
\* among them, which the second loop visits.
IsPdfEntry(entry) == entry.file.filename.ext = "pdf"

EntryAt(list, it) ==
    [version |-> list[it.r].versions[it.v],
     file |-> list[it.r].versions[it.v].formats[it.f]]

Entries(list) ==
    LET its == IterFiles(list)
    IN  [i \in 1..Len(its) |-> EntryAt(list, its[i])]

ThumbItems(list) == SelectSeq(Entries(list), IsPdfEntry)

\* pool.apply_async(trap_all, [func, ...]): a task in the queue of the pool.
Task(func, in_fn, out_fn, version) ==
    [func |-> func, in |-> in_fn, out |-> out_fn, version |-> version,
     state |-> "queued", saw |-> FALSE, raised |-> FALSE]

\* The pool of a run: the two lists that the loops go through and the loop
\* position, the tasks in the order of their submission, open_tasks, the
\* task whose wait() the loop is in (0: none), whether pool.join() has
\* returned; and, from the run before, the output paths of the cleaning
\* tasks that raised.
NewPool(list, failed) ==
    [items |-> Entries(list), thumbs |-> ThumbItems(list),
     i |-> 1, tasks |-> <<>>, open |-> <<>>, waiting |-> 0, joined |-> FALSE,
     failed |-> failed]

Running(tasks) == {t \in 1..Len(tasks) : tasks[t].state = "running"}

Unfinished(tasks) == {t \in 1..Len(tasks) : tasks[t].state # "done"}

\* A test that minds the input only.
TodoWheneverInput(d, in_fn, out_fn) == in_fn \in DOMAIN d

\* os.path.exists(in_fn) and not os.path.exists(out_fn)
Todo(d, in_fn, out_fn) == in_fn \in DOMAIN d /\ out_fn \notin DOMAIN d

\* The end of a loop body without the wait.
TrackOnly(p, tasks, open, backlog) ==
    [p EXCEPT !.i = @ + 1, !.tasks = tasks, !.open = open]

\* The end of a loop body: open_tasks.pop(0).wait() when more than backlog
\* tasks are tracked.
TrackAndWait(p, tasks, open, backlog) ==
    [p EXCEPT !.i = @ + 1,
              !.tasks = tasks,
              !.open = IF Len(open) > backlog THEN Tail(open) ELSE open,
              !.waiting = IF Len(open) > backlog THEN Head(open) ELSE 0]

\* One iteration of the first loop of clean_files.
CleanIteration ==
    /\ pc = "pool"
    /\ ~pool.joined
    /\ pool.waiting = 0
    /\ pool.i <= Len(pool.items)
    /\ LET entry == pool.items[pool.i]
           version == entry.version
           fn == entry.file.filename
           in_fn == <<IncomingDir(version), fn>>
           out_fn == <<REPORTS_FILES, fn>>
           todo == Todo(disk, in_fn, out_fn)
           func == IF fn.ext = "html" THEN "clean_html" ELSE "clean_pdf"
           submit == todo /\ fn.ext \in {"html", "pdf"}
           tasks == IF submit THEN Append(pool.tasks, Task(func, in_fn, out_fn, version))
                    ELSE pool.tasks
           open == IF submit THEN Append(pool.open, Len(tasks)) ELSE pool.open
           cs == [disk |-> disk, all |-> all_files \cup {fn}, written |-> written,
                  unlinked |-> unlinked, made |-> {}]
           linked == IF fn.ext = "html" /\ entry.file.images # {}
                     THEN LinkImages(cs, version, entry.file.images)
                     ELSE cs
       IN  IF todo /\ ~submit
           THEN /\ pool' = [pool EXCEPT !.i = @ + 1]
                /\ all_files' = all_files \cup {fn}
                /\ UNCHANGED <<disk, written, unlinked>>
           ELSE /\ pool' = TrackAndWait(pool, tasks, open, CleanBacklog)
                /\ all_files' = linked.all
                /\ disk' = linked.disk
                /\ written' = linked.written
                /\ unlinked' = linked.unlinked
    /\ UNCHANGED <<pc, run, denylist, incoming, withheld_reports, reports, reportsList,
                   error, nread, offered, hashcache, prev, page, site>>

\* One iteration of the second loop of clean_files.
ThumbnailIteration ==
    /\ pc = "pool"
    /\ ~pool.joined
    /\ pool.waiting = 0
    /\ pool.i > Len(pool.items)
    /\ pool.i <= Len(pool.items) + Len(pool.thumbs)
    /\ LET entry == pool.thumbs[pool.i - Len(pool.items)]
           fn == entry.file.filename
           pdf_fn == <<REPORTS_FILES, fn>>
           png_fn == <<REPORTS_FILES, ReplaceExt(fn, "png")>>
           tasks == Append(pool.tasks,
                           Task("make_pdf_thumbnail", pdf_fn, png_fn, entry.version))
           open == Append(pool.open, Len(tasks))
       IN  /\ all_files' = all_files \cup {ReplaceExt(fn, "png")}
           /\ pool' = IF png_fn \in DOMAIN disk
                      THEN [pool EXCEPT !.i = @ + 1]
                      ELSE TrackAndWait(pool, tasks, open, ThumbBacklog)
    /\ UNCHANGED <<pc, run, denylist, incoming, withheld_reports, reports, reportsList,
                   error, nread, offered, hashcache, disk, prev, written, unlinked, page, site>>

\* AsyncResult.wait() returns once the task is done.
Wait ==
    /\ pc = "pool"
    /\ pool.waiting # 0
    /\ pool.tasks[pool.waiting].state = "done"
    /\ pool' = [pool EXCEPT !.waiting = 0]
    /\ UNCHANGED <<pc, run, denylist, incoming, withheld_reports, reports, reportsList,
                   all_files, error, nread, offered, hashcache, disk, prev, written,
                   unlinked, page, site>>

\* A free worker takes the oldest task of the queue.  The task opens its
\* input now.
TaskStart ==
    /\ pc = "pool"
    /\ Cardinality(Running(pool.tasks)) < Processes
    /\ \E t \in 1..Len(pool.tasks) :
          /\ pool.tasks[t].state = "queued"
          /\ \A u \in 1..(t-1) : pool.tasks[u].state # "queued"
          /\ pool' = [pool EXCEPT !.tasks[t].state = "running",
                                  !.tasks[t].saw = pool.tasks[t].in \in DOMAIN disk]
    /\ UNCHANGED <<pc, run, denylist, incoming, withheld_reports, reports, reportsList,
                   all_files, error, nread, offered, hashcache, disk, prev, written,
                   unlinked, page, site>>

\* make_pdf_thumbnail: pdftoppm writes the .png next to a PDF that it
\* could open.
MakePdfThumbnail(cs, task) ==
    IF ~task.saw \/ Corrupt(cs.disk[task.in]) THEN cs
    ELSE [cs EXCEPT !.disk = WriteFile(cs.disk, task.out,
                                       File("png", cs.disk[task.in].bytes, task.out)),
                    !.written = @ \cup {task.out},
                    !.made = @ \cup {task.out}]

\* trap_all(func, ...): what the task leaves on disk; an exception of func
\* ends the task and nothing else.
trap_all(cs, task) ==
    CASE task.func = "clean_html" -> CleanHtml(cs, task.in, task.out)
      [] task.func = "clean_pdf"  -> CleanPdf(cs, task.in, task.out, task.version)
      [] OTHER                    -> MakePdfThumbnail(cs, task)

\* A running task comes to its end: it has written its output, or it has
\* raised.
TaskFinish ==
    /\ pc = "pool"
    /\ \E t \in Running(pool.tasks) :
          LET task == pool.tasks[t]
              r == trap_all([disk |-> disk, all |-> all_files, written |-> written,
                             unlinked |-> unlinked, made |-> {}], task)
          IN  /\ pool' = [pool EXCEPT !.tasks[t].state = "done",
                                      !.tasks[t].raised = task.out \notin r.made]
              /\ disk' = r.disk
              /\ written' = r.written
              /\ unlinked' = r.unlinked
    /\ UNCHANGED <<pc, run, denylist, incoming, withheld_reports, reports, reportsList,
                   all_files, error, nread, offered, hashcache, prev, page, site>>

\* pool.close(); pool.join(): clean_files returns when both loops are over
\* and every task is done.
Join ==
    /\ pc = "pool"
    /\ ~pool.joined
    /\ pool.waiting = 0
    /\ pool.i > Len(pool.items) + Len(pool.thumbs)
    /\ Unfinished(pool.tasks) = {}
    /\ pool' = [pool EXCEPT !.joined = TRUE]
    /\ UNCHANGED <<pc, run, denylist, incoming, withheld_reports, reports, reportsList,
                   all_files, error, nread, offered, hashcache, disk, prev, written,
                   unlinked, page, site>>

\* The cleaning tasks that raised.
FailedOutputs(tasks) ==
    {tasks[t].out : t \in {u \in 1..Len(tasks) :
                              tasks[u].raised /\ tasks[u].func # "make_pdf_thumbnail"}}

\* The next run of clean_files over the same metadata and the same
\* incoming files.
NextPoolRun ==
    /\ pc = "pool"
    /\ pool.joined
    /\ run < MaxRuns
    /\ run' = run + 1
    /\ prev' = disk
    /\ pool' = NewPool(reportsList, FailedOutputs(pool.tasks))
    /\ all_files' = {}
    /\ written' = {}
    /\ unlinked' = {}
    /\ UNCHANGED <<pc, denylist, incoming, withheld_reports, reports, reportsList,
                   error, nread, offered, hashcache, disk, page, site>>

\* ------------------------------------------------ clean_files: inputs
PoolVersion(source, date, formats, dir) ==
    VersionRecord(source, date, 1, "CRS Report", "REPORTS", TRUE, formats, dir, {})

PoolReport(number, versions) == [number |-> number, versions |-> versions]

\* A crs.gov report of one version with a PDF and an HTML page that shows
\* an image.
CrsReport(pdf, html, day) ==
    PoolReport(R1, << PoolVersion(INCOMING_SOURCE, DateStr(day, Midnight),
                                  << PdfEntry("compact", day, R1, pdf),
                                     HtmlEntry(day, R1, html, {ImageName}) >>, "") >>)

\* A crs.gov report that was fetched twice on one day: two versions, one
\* stored PDF.
TwiceFetched(pdf) ==
    PoolReport(R1, << PoolVersion(INCOMING_SOURCE, DateStr(1, Noon),
                                  << PdfEntry("compact", 1, R1, pdf) >>, ""),
                      PoolVersion(INCOMING_SOURCE, DateStr(1, Midnight),
                                  << PdfEntry("compact", 1, R1, pdf) >>, "") >>)

CongressReport ==
    PoolReport(R2, << PoolVersion(CONGRESS_SOURCE, DateStr(1, NoTime),
                                  << PdfEntry("iso", 1, R2, "c1") >>,
                                  "crsreports.congress.gov") >>)

\* A report of the UNT archive: load_unt_reports has written its PDF.
UntReport ==
    PoolReport(R9, << PoolVersion(UNT_SOURCE_STRING, DateStr(1, Midnight),
                                  << PdfEntry("compact", 1, R9, "c1") >>, "") >>)

\* The k-th of many reports that have an HTML page only.
PageReport(k) ==
    PoolReport(R1, << PoolVersion(INCOMING_SOURCE, DateStr(1, Midnight),
                                  << HtmlEntry(k, R1, "c1", {}) >>, "") >>)

\* The k-th of many reports that have a PDF only.
PdfReport(k) ==
    PoolReport(R1, << PoolVersion(INCOMING_SOURCE, DateStr(1, Midnight),
                                  << PdfEntry("compact", k, R1, "c1") >>, "") >>)

\* More pages than the cleaning loop tracks, and one PDF after them.
ManyPages ==
    [k \in 1..(CleanBacklog + 2) |->
        IF k <= CleanBacklog + 1 THEN PageReport(k) ELSE PdfReport(k)]

\* More PDFs than the thumbnail loop tracks.
ManyPdfs == [k \in 1..(ThumbBacklog + 1) |-> PdfReport(k)]

PoolLists ==
    {<<CrsReport(pdf, "c1", day)>> : pdf \in {"c1", "c2", "c3"}, day \in {1, 2}}
    \cup {<<CrsReport("c1", "c2", 1)>>, <<TwiceFetched("c1")>>, <<TwiceFetched("c3")>>,
          <<CongressReport>>, <<UntReport>>, <<CrsReport("c1", "c1", 1), CongressReport>>,
          ManyPages, ManyPdfs}

\* The files under incoming/ and, for a UNT version, the PDF under
\* reports/files; published: the PDFs are cleaned already.
PoolDisk(list, published) ==
    LET entries == Entries(list)
        at(i) == IF entries[i].version.source = UNT_SOURCE_STRING THEN REPORTS_FILES
                 ELSE IncomingDir(entries[i].version)
        raw == UNION {{<<at(i), fn>> :
                          fn \in {entries[i].file.filename} \cup entries[i].file.images} :
                      i \in 1..Len(entries)}
        out == IF published
               THEN {<<REPORTS_FILES, entries[i].file.filename>> : i \in 1..Len(entries)}
               ELSE {}
    IN  [p \in raw \cup out |->
            IF p \in raw THEN File("raw", p[2].sha1[2], p)
            ELSE File("redacted", p[2].sha1[2], p)]

PoolSetups ==
    {[list |-> list, published |-> FALSE] : list \in PoolLists}
    \cup {[list |-> ManyPdfs, published |-> TRUE]}

InitPool ==
    /\ pc = "pool"
    /\ run = 1
    /\ denylist = NoDenylist
    /\ incoming = NoIncoming
    /\ withheld_reports = {}
    /\ reports = EmptyReports
    /\ all_files = {}
    /\ error = NoError
    /\ nread = 0
    /\ offered = <<>>
    /\ hashcache = <<>>
    /\ written = {}
    /\ unlinked = {}
    /\ page = NoPage
    /\ site = NoSite
    /\ \E s \in PoolSetups :
          /\ reportsList = s.list
          /\ pool = NewPool(s.list, {})
          /\ disk = PoolDisk(s.list, s.published)
          /\ prev = disk

NextPool ==
    \/ CleanIteration
    \/ ThumbnailIteration
    \/ Wait
    \/ TaskStart
    \/ TaskFinish
    \/ Join
    \/ NextPoolRun

SpecPool == InitPool /\ [][NextPool]_vars

\* -------------------------------------------------------- compare_versions
REPORTS_DIFFS == "reports/diffs"

\* A generator that yields a pair whenever an earlier HTML entry is held.
RECURSIVE YieldPairsAlways(_, _)
YieldPairsAlways(files, prev_version) ==
    IF files = <<>> THEN <<>>
    ELSE (IF prev_version # <<>>
          THEN << [file |-> Head(files), prev_version |-> prev_version] >>
          ELSE <<>>)
         \o YieldPairsAlways(Tail(files), Head(files))

\* The generator of iter_files over the HTML format entries of one report,
\* oldest version first: a pair is yielded when an earlier HTML entry is
\* held and its file name differs, and every HTML entry becomes the one held.
RECURSIVE YieldPairs(_, _)
YieldPairs(files, prev_version) ==
    IF files = <<>> THEN <<>>
    ELSE (IF prev_version # <<>> /\ Head(files).filename # prev_version.filename
          THEN << [file |-> Head(files), prev_version |-> prev_version] >>
          ELSE <<>>)
         \o YieldPairs(Tail(files), Head(files))

\* The HTML format entries of a report, in reversed(report["versions"]).
HtmlFilesReversed(report) ==
    Flatten([k \in 1..Len(report.versions) |->
        SelectSeq(report.versions[Len(report.versions) + 1 - k].formats,
                  LAMBDA file : file.format = "HTML")])

\* A walk that yields a pair for every HTML entry after the first.
DiffIterFilesEveryPair(list) ==
    Flatten([r \in 1..Len(list) |-> YieldPairsAlways(HtmlFilesReversed(list[r]), <<>>)])

\* list(iter_files()) of compare_versions, over the per-report JSON files.
DiffIterFiles(list) ==
    Flatten([r \in 1..Len(list) |-> YieldPairs(HtmlFilesReversed(list[r]), <<>>)])

\* prev_fn[6:].replace(".html", "") + "__" + fn[6:] under reports/diffs
DiffFn(prev_fn, fn) == <<REPORTS_DIFFS, [prev |-> ReplaceExt(prev_fn, ""), fn |-> fn]>>

\* output_fn.replace(".html", "-pctchg.txt")
PctChgFn(output_fn) ==
    <<output_fn[1], [output_fn[2] EXCEPT !.fn = ReplaceExt(@, "-pctchg.txt")]>>

\* The run of compare_versions that starts on the given per-report files.
NewDiffRun(list, n) ==
    [script |-> "compare_versions", reports |-> list, todo |-> DiffIterFiles(list),
     i |-> 1, output_fn |-> <<>>, killed |-> FALSE, run |-> n]

DiffRunning ==
    /\ pc = "diff"
    /\ ~site.killed
    /\ site.i <= Len(site.todo)

\* One pass of the loop, up to the first write of create_diff: the pair is
\* left alone when one of its files is missing or its diff is there.
DiffIteration ==
    /\ DiffRunning
    /\ site.output_fn = <<>>
    /\ LET fn == site.todo[site.i].file.filename
           prev_fn == site.todo[site.i].prev_version.filename
           diff_fn == DiffFn(prev_fn, fn)
           version1 == <<REPORTS_FILES, prev_fn>>
           version2 == <<REPORTS_FILES, fn>>
       IN  IF version2 \notin DOMAIN disk \/ version1 \notin DOMAIN disk
              \/ diff_fn \in DOMAIN disk
           THEN /\ site' = [site EXCEPT !.i = @ + 1]
                /\ UNCHANGED <<disk, written>>
           ELSE /\ disk' = WriteFile(disk, diff_fn,
                               File("create_diff",
                                    <<disk[version1].bytes, disk[version2].bytes>>, diff_fn))
                /\ written' = written \cup {diff_fn}
                /\ site' = [site EXCEPT !.output_fn = diff_fn]
    /\ UNCHANGED <<pc, run, denylist, incoming, withheld_reports, reports, reportsList,
                   all_files, error, nread, offered, hashcache, prev, unlinked, pool, page>>

\* The second write of create_diff.
WritePercentChange ==
    /\ DiffRunning
    /\ site.output_fn # <<>>
    /\ LET pct_fn == PctChgFn(site.output_fn)
       IN  /\ disk' = WriteFile(disk, pct_fn,
                          File("percent_change", disk[site.output_fn].bytes, pct_fn))
           /\ written' = written \cup {pct_fn}
    /\ site' = [site EXCEPT !.output_fn = <<>>, !.i = @ + 1]
    /\ UNCHANGED <<pc, run, denylist, incoming, withheld_reports, reports, reportsList,
                   all_files, error, nread, offered, hashcache, prev, unlinked, pool, page>>

\* The process is stopped from outside while the loop runs.
DiffInterrupt ==
    /\ DiffRunning
    /\ site' = [site EXCEPT !.killed = TRUE]
    /\ UNCHANGED <<pc, run, denylist, incoming, withheld_reports, reports, reportsList,
                   all_files, error, nread, offered, hashcache, disk, prev, written,
                   unlinked, pool, page>>

\* compare_versions is started again on what the last run left.
NextDiffRun ==
    /\ pc = "diff"
    /\ site.killed \/ site.i > Len(site.todo)
    /\ site.run < MaxRuns
    /\ site' = NewDiffRun(site.reports, site.run + 1)
    /\ prev' = disk
    /\ written' = {}
    /\ UNCHANGED <<pc, run, denylist, incoming, withheld_reports, reports, reportsList,
                   all_files, error, nread, offered, hashcache, disk, unlinked, pool, page>>

\* -------------------------------------------------- compare_versions: inputs
\* The most versions that a report of the inputs has.
MaxVersions == 3

\* The versions that a report is made of: with the HTML page of a day, or
\* with a PDF alone.
DiffVersions ==
    {PoolVersion(INCOMING_SOURCE, DateStr(d, Midnight), <<HtmlEntry(d, R1, "c1", {})>>, "") :
        d \in 1..MaxDay}
    \cup {PoolVersion(INCOMING_SOURCE, DateStr(1, Midnight),
                      <<PdfEntry("compact", 1, R1, "c1")>>, "")}

\* One report, and some of the HTML files of its versions.
DiffSetups ==
    {[list |-> <<PoolReport(R1, vs)>>, files |-> fs] :
        vs \in SeqsUpTo(DiffVersions, MaxVersions),
        fs \in SUBSET {HtmlEntry(d, R1, "c1", {}).filename : d \in 1..MaxDay}}

InitDiff ==
    /\ pc = "diff"
    /\ run = 1
    /\ denylist = NoDenylist
    /\ incoming = NoIncoming
    /\ withheld_reports = {}
    /\ reports = EmptyReports
    /\ reportsList = <<>>
    /\ all_files = {}
    /\ error = NoError
    /\ nread = 0
    /\ offered = <<>>
    /\ hashcache = <<>>
    /\ written = {}
    /\ unlinked = {}
    /\ pool = NoPool
    /\ page = NoPage
    /\ \E s \in DiffSetups :
          /\ site = NewDiffRun(s.list, 1)
          /\ disk = [p \in {<<REPORTS_FILES, fn>> : fn \in s.files} |->
                        File("clean_html", "c1", p)]
          /\ prev = disk

NextDiff ==
    \/ DiffIteration
    \/ WritePercentChange
    \/ DiffInterrupt
    \/ NextDiffRun

SpecDiff == InitDiff /\ [][NextDiff]_vars

\* --------------------------------------------------------------- make_epubs
REPORTS_EPUBS == "reports/epubs"

\* file.get("source") of a format entry is truthy.
HasSource(file) == "source" \in DOMAIN file /\ file.source # ""

FormatsOf(ver, kind) == SelectSeq(ver.formats, LAMBDA f : f.format = kind)

\* A choice of the source that takes the HTML page whenever there is one.
EpubSourceHtmlFirst(d, ver) ==
    LET html_formats == FormatsOf(ver, "HTML")
        pdf_formats == FormatsOf(ver, "PDF")
    IN  IF html_formats # <<>>
        THEN [from |-> "html", fn |-> html_formats[1].filename,
              found |-> <<REPORTS_FILES, html_formats[1].filename>> \in DOMAIN d]
        ELSE IF pdf_formats = <<>> THEN [from |-> "pdf", fn |-> <<>>, found |-> FALSE]
        ELSE [from |-> "pdf", fn |-> pdf_formats[1].filename,
              found |-> <<REPORTS_FILES, pdf_formats[1].filename>> \in DOMAIN d]

\* make_epub: the file that the ePub is made from, the HTML page when its
\* format entry has a "source" and the PDF otherwise; found is FALSE where
\* make_epub returns because there is no such format or no such file.
EpubSource(d, ver) ==
    LET html_formats == FormatsOf(ver, "HTML")
        pdf_formats == FormatsOf(ver, "PDF")
    IN  IF html_formats # <<>> /\ HasSource(html_formats[1])
        THEN [from |-> "html", fn |-> html_formats[1].filename,
              found |-> <<REPORTS_FILES, html_formats[1].filename>> \in DOMAIN d]
        ELSE IF pdf_formats = <<>> THEN [from |-> "pdf", fn |-> <<>>, found |-> FALSE]
        ELSE [from |-> "pdf", fn |-> pdf_formats[1].filename,
              found |-> <<REPORTS_FILES, pdf_formats[1].filename>> \in DOMAIN d]

\* make_epub: the thumbnail of the version's PDF, None when the version has
\* no PDF or the PDF has no thumbnail.
ThumbnailFn(d, ver) ==
    LET pdf_formats == FormatsOf(ver, "PDF")
    IN  IF pdf_formats = <<>> THEN <<>>
        ELSE IF <<REPORTS_FILES, ReplaceExt(pdf_formats[1].filename, "png")>> \in DOMAIN d
        THEN ReplaceExt(pdf_formats[1].filename, "png")
        ELSE <<>>

\* report_fn + "|" + (thumbnail_fn or "")
EpubSrc(report_fn, thumbnail_fn) == <<report_fn, "|", thumbnail_fn>>

OutFn(report_id) == <<REPORTS_EPUBS, [number |-> report_id, ext |-> "epub"]>>

SrcFn(report_id) == <<REPORTS_EPUBS, [number |-> report_id, ext |-> "epub.src"]>>

\* A test that takes any sidecar for a matching one.
EpubUpToDateWhenThere(d, report_id, src) == SrcFn(report_id) \in DOMAIN d

\* os.path.exists(out_fn + ".src") and open(out_fn + ".src").read() == src
EpubUpToDate(d, report_id, src) ==
    SrcFn(report_id) \in DOMAIN d /\ d[SrcFn(report_id)].bytes = src

\* make_epub(report_id): it returns early, or finds the ePub up to date, or
\* converts and writes the sidecar, or the conversion raises.
make_epub(d, report) ==
    LET ver == report.versions[1]
        source == EpubSource(d, ver)
        thumbnail_fn == ThumbnailFn(d, ver)
        src == EpubSrc(source.fn, thumbnail_fn)
        out_fn == OutFn(report.number)
        document == d[<<REPORTS_FILES, source.fn>>]
        epub == File("pandoc", [from |-> source.from, document |-> document.bytes,
                                cover |-> thumbnail_fn], out_fn)
    IN  IF ~source.found THEN [result |-> "return", disk |-> d]
        ELSE IF EpubUpToDate(d, report.number, src) THEN [result |-> "up to date", disk |-> d]
        ELSE IF Corrupt(document) THEN [result |-> "raised", disk |-> d]
        ELSE [result |-> "converted",
              disk |-> WriteFile(WriteFile(d, out_fn, epub), SrcFn(report.number),
                                 File("src", src, SrcFn(report.number)))]

\* The run of make_epubs over the per-report JSON files.
NewEpubRun(list, n) ==
    [script |-> "make_epubs", reports |-> list, i |-> 1, result |-> "", raised |-> FALSE,
     run |-> n]

\* One pass of the loop of __main__: an exception of make_epub ends the run.
MakeEpub ==
    /\ pc = "epub"
    /\ ~site.raised
    /\ site.i <= Len(site.reports)
    /\ LET r == make_epub(disk, site.reports[site.i])
       IN  /\ disk' = r.disk
           /\ written' = written \cup {p \in {OutFn(site.reports[site.i].number),
                                              SrcFn(site.reports[site.i].number)} :
                                          r.result = "converted"}
           /\ site' = [site EXCEPT !.result = r.result,
                                   !.raised = (r.result = "raised"),
                                   !.i = IF r.result = "raised" THEN @ ELSE @ + 1]
    /\ UNCHANGED <<pc, run, denylist, incoming, withheld_reports, reports, reportsList,
                   all_files, error, nread, offered, hashcache, prev, unlinked, pool, page>>

\* ------------------------------------------------------- make_epubs: inputs
\* A format entry with a "source" key.
WithSource(file) == file @@ [source |-> "CRS"]

\* The current versions that the first report can have: a PDF alone, an
\* HTML page with or without a PDF, the same with a "source" on the entry
\* of the HTML page, and a PDF of the UNT archive that is not a document
\* (clean_pdf links the files of the archive as they are).
EpubVersions ==
    {PoolVersion(INCOMING_SOURCE, DateStr(1, Midnight), formats, "") : formats \in
        { <<PdfEntry("compact", 1, R1, "c1")>>,
          <<PdfEntry("compact", 1, R1, "c1"), HtmlEntry(1, R1, "c1", {})>>,
          <<HtmlEntry(1, R1, "c1", {})>>,
          <<PdfEntry("compact", 1, R1, "c1"), WithSource(HtmlEntry(1, R1, "c1", {}))>>,
          <<WithSource(HtmlEntry(1, R1, "c1", {}))>> }}
    \cup {PoolVersion(UNT_SOURCE_STRING, DateStr(1, NoTime),
                      <<PdfEntry("compact", 1, R1, "c2")>>, "")}

\* The second report, which is always there with its PDF.
EpubOther ==
    PoolReport(R2, <<PoolVersion(INCOMING_SOURCE, DateStr(1, Midnight),
                                 <<PdfEntry("compact", 1, R2, "c1")>>, "")>>)

\* The content that a stored file name was hashed from.
BytesOf(fn) == fn.sha1[2]

\* What process_incoming has published when make_epubs starts: the reports,
\* their files or none of the first report's, with thumbnails or without.
EpubSetups ==
    {[list |-> <<PoolReport(R1, <<ver>>), EpubOther>>, there |-> there, thumbs |-> thumbs] :
        ver \in EpubVersions, there \in BOOLEAN, thumbs \in BOOLEAN}

EpubDisk(s) ==
    LET entries(r) == s.list[r].versions[1].formats
        names == UNION {{entries(r)[f].filename : f \in 1..Len(entries(r))} :
                           r \in {q \in 1..Len(s.list) : q = 2 \/ s.there}}
        pngs == {ReplaceExt(fn, "png") : fn \in {g \in names : g.ext = "pdf" /\ s.thumbs /\ BytesOf(g) # "c2"}}
    IN  [p \in {<<REPORTS_FILES, fn>> : fn \in names \cup pngs} |->
            File(IF p[2].ext = "png" THEN "png" ELSE "published", BytesOf(p[2]), p)]

\* process_incoming has run again, and make_epubs is started on what it
\* published and on the ePubs of the runs before.
NextEpubRun ==
    /\ pc = "epub"
    /\ site.raised \/ site.i > Len(site.reports)
    /\ site.run < MaxRuns
    /\ \E s \in EpubSetups :
          /\ site' = NewEpubRun(s.list, site.run + 1)
          /\ disk' = [p \in {q \in DOMAIN disk : q[1] = REPORTS_EPUBS} |-> disk[p]]
                         @@ EpubDisk(s)
    /\ prev' = disk'
    /\ written' = {}
    /\ UNCHANGED <<pc, run, denylist, incoming, withheld_reports, reports, reportsList,
                   all_files, error, nread, offered, hashcache, unlinked, pool, page>>

InitEpub ==
    /\ pc = "epub"
    /\ run = 1
    /\ denylist = NoDenylist
    /\ incoming = NoIncoming
    /\ withheld_reports = {}
    /\ reports = EmptyReports
    /\ reportsList = <<>>
    /\ all_files = {}
    /\ error = NoError
    /\ nread = 0
    /\ offered = <<>>
    /\ hashcache = <<>>
    /\ written = {}
    /\ unlinked = {}
    /\ pool = NoPool
    /\ page = NoPage
    /\ \E s \in EpubSetups :
          /\ site = NewEpubRun(s.list, 1)
          /\ disk = EpubDisk(s)
          /\ prev = disk

NextEpub ==
    \/ MakeEpub
    \/ NextEpubRun

SpecEpub == InitEpub /\ [][NextEpub]_vars

\* -------------------------------------------------------------------- build
BUILD_REPORTS == "static-site/reports"

BUILD_CHANGES == "static-site/changes"

\* get_report_url_path(report, ext) under BUILD_DIR: "reports/<number><ext>".
get_report_url_path(report, ext) == <<BUILD_REPORTS, [number |-> report.number, ext |-> ext]>>

\* dict_sha1(report, dependency_files): the digest of the record of the
\* report as load_all_reports made it and of the bytes of build.py and of
\* the three templates.
dict_sha1(report, dependency_files) == <<"sha1", report, dependency_files>>

\* re.search(r'<meta name="source-content-hash" content="(.*?)" />', page)
ExistingHash(existing_page) == existing_page.bytes.source_content_hash

\* A test that takes any page that is there for a current one.
PageUpToDateWhenThere(d, output_fn, current_hash) == output_fn \in DOMAIN d

\* generate_report_page: the page is there and its hash is the current one.
PageUpToDate(d, output_fn, current_hash) ==
    output_fn \in DOMAIN d /\ ExistingHash(d[output_fn]) = current_hash

\* make_link(src, dst) of build.py; src is <<>> for None.
BuildMakeLink(d, src, dst) ==
    IF dst \in DOMAIN d /\ src # <<>> /\ d[src].inode = d[dst].inode THEN d
    ELSE IF src = <<>> THEN [p \in DOMAIN d \ {dst} |-> d[p]]
    ELSE WriteFile(d, dst, d[src])

\* generate_report_page: the diffs that are there of the pairs of HTML
\* versions, in the order in which the loop over reversed(report["versions"])
\* comes to them.
DiffsThere(d, report) ==
    LET pairs == YieldPairs(HtmlFilesReversed(report), <<>>)
        names == [k \in 1..Len(pairs) |->
                     DiffFn(pairs[k].prev_version.filename, pairs[k].file.filename)]
    IN  SelectSeq(names, LAMBDA diff_fn : diff_fn \in DOMAIN d)

\* What the template report.html is given to show: the links to the diffs
\* with their percent_change, the most recent HTML text (None when there is
\* no such version or no such file), and whether there is an ePub.
PageContext(d, report) ==
    LET files == HtmlFilesReversed(report)
        most_recent_html == IF files = <<>> THEN <<>>
                            ELSE <<REPORTS_FILES, files[Len(files)].filename>>
    IN  [diff_links |-> {[diff_link |-> diff_fn[2], percent_change |-> d[PctChgFn(diff_fn)].bytes] :
                            diff_fn \in {DiffsThere(d, report)[k] :
                                            k \in 1..Len(DiffsThere(d, report))}},
         html |-> IF most_recent_html \in DOMAIN d THEN d[most_recent_html].bytes ELSE <<>>,
         epub_url |-> OutFn(report.number) \in DOMAIN d]

\* The thumbnail of the most recent PDF, None when there is none.
ThumbnailSourceFn(d, report) ==
    LET pdfs == Flatten([k \in 1..Len(report.versions) |->
                    FormatsOf(report.versions[k], "PDF")])
        fn == <<REPORTS_FILES, ReplaceExt(pdfs[1].filename, "png")>>
    IN  IF pdfs # <<>> /\ fn \in DOMAIN d THEN fn ELSE <<>>

\* generate_report_page(report): the page is skipped, or open() of a
\* percent-change file raises, or the pages of the diffs and the page of
\* the report are written and the ePub, the JSON file and the thumbnail
\* are linked.
generate_report_page(d, report, dependency_files) ==
    LET output_fn == get_report_url_path(report, "html")
        current_hash == dict_sha1(report, dependency_files)
        diffs == DiffsThere(d, report)
        bad == {k \in 1..Len(diffs) : PctChgFn(diffs[k]) \notin DOMAIN d}
        read == {diffs[k] : k \in {j \in 1..Len(diffs) : \A b \in bad : j < b}}
        changes == [p \in DOMAIN d \cup {<<BUILD_CHANGES, diff_fn[2]>> : diff_fn \in read} |->
                       IF p[1] = BUILD_CHANGES /\ <<REPORTS_DIFFS, p[2]>> \in read
                       THEN File("report-diff.html", d[<<REPORTS_DIFFS, p[2]>>].bytes, p)
                       ELSE d[p]]
        linked == IF OutFn(report.number) \in DOMAIN d
                  THEN BuildMakeLink(changes, OutFn(report.number),
                                     get_report_url_path(report, "epub"))
                  ELSE changes
        html == File("report.html",
                     PageContext(d, report) @@ [source_content_hash |-> current_hash],
                     output_fn)
        paged == WriteFile(linked, output_fn, html)
        json == BuildMakeLink(paged, <<REPORTS_REPORTS, report.number>>,
                              get_report_url_path(report, "json"))
    IN  IF PageUpToDate(d, output_fn, current_hash) THEN [result |-> "skipped", disk |-> d]
        ELSE IF bad # {} THEN [result |-> "raised", disk |-> changes]
        ELSE [result |-> "written",
              disk |-> BuildMakeLink(json, ThumbnailSourceFn(d, report),
                                     get_report_url_path(report, "png"))]

\* A clean-up that unlinks the pages of the withdrawn reports alone.
RemoveOrphanedPages(d, list) ==
    LET all_reports == {get_report_url_path(list[r], "")[2].number : r \in 1..Len(list)}
    IN  [p \in {q \in DOMAIN d :
                  q[1] = BUILD_REPORTS => (q[2].number \in all_reports \/ q[2].ext # "html")} |-> d[p]]

\* remove_orphaned_reports(reports): every file of the reports directory
\* of the build whose name without extension is not expected is unlinked.
remove_orphaned_reports(d, list) ==
    LET all_reports == {get_report_url_path(list[r], "")[2].number : r \in 1..Len(list)}
    IN  [p \in {q \in DOMAIN d : q[1] = BUILD_REPORTS => q[2].number \in all_reports} |-> d[p]]

\* The run of build.py on the reports that load_all_reports read, with the
\* bytes of build.py and of the templates.
NewBuildRun(list, code, n) ==
    [script |-> "build", reports |-> list, dependency_files |-> code, i |-> 1,
     result |-> "", raised |-> FALSE, removed |-> FALSE, run |-> n]

\* One pass of the loop over the reports in __main__.
GenerateReportPage ==
    /\ pc = "build"
    /\ ~site.raised
    /\ site.i <= Len(site.reports)
    /\ LET r == generate_report_page(disk, site.reports[site.i], site.dependency_files)
       IN  /\ disk' = r.disk
           /\ written' = IF r.result = "written"
                         THEN written \cup {get_report_url_path(site.reports[site.i], "html")}
                         ELSE written
           /\ site' = [site EXCEPT !.result = r.result,
                                   !.raised = (r.result = "raised"),
                                   !.i = IF r.result = "raised" THEN @ ELSE @ + 1]
    /\ UNCHANGED <<pc, run, denylist, incoming, withheld_reports, reports, reportsList,
                   all_files, error, nread, offered, hashcache, prev, unlinked, pool, page>>

\* The call of remove_orphaned_reports after the loop.
RemoveOrphanedReports ==
    /\ pc = "build"
    /\ ~site.raised
    /\ ~site.removed
    /\ site.i > Len(site.reports)
    /\ disk' = remove_orphaned_reports(disk, site.reports)
    /\ unlinked' = unlinked \cup (DOMAIN disk \ DOMAIN disk')
    /\ site' = [site EXCEPT !.removed = TRUE, !.result = ""]
    /\ UNCHANGED <<pc, run, denylist, incoming, withheld_reports, reports, reportsList,
                   all_files, error, nread, offered, hashcache, prev, written, pool, page>>

\* ------------------------------------------------------------ build: inputs
\* A report of two versions with an HTML page each, and a report of one
\* version with a PDF.
TwoPages ==
    PoolReport(R1, << PoolVersion(INCOMING_SOURCE, DateStr(2, Midnight),
                                  <<HtmlEntry(2, R1, "c1", {})>>, ""),
                      PoolVersion(INCOMING_SOURCE, DateStr(1, Midnight),
                                  <<HtmlEntry(1, R1, "c1", {})>>, "") >>)

\* What the scripts before build.py have left when it starts: the reports
\* (the first one is withdrawn or not), the diff of the two pages (none,
\* whole, or without its percent-change file), the ePub of the first
\* report or none, and the bytes of build.py and of its templates.
BuildSetups ==
    {[list |-> list, diff |-> diff, epub |-> epub, code |-> code] :
        list \in {<<TwoPages, EpubOther>>, <<EpubOther>>},
        diff \in {"none", "whole", "half"},
        epub \in BOOLEAN,
        code \in {"v1", "v2"}}

BuildDisk(s) ==
    LET diff_fn == DiffFn(HtmlEntry(1, R1, "c1", {}).filename, HtmlEntry(2, R1, "c1", {}).filename)
        pdf_fn == PdfEntry("compact", 1, R2, "c1").filename
        names == {<<REPORTS_FILES, HtmlEntry(d, R1, "c1", {}).filename>> : d \in 1..2}
                 \cup {<<REPORTS_FILES, pdf_fn>>, <<REPORTS_FILES, ReplaceExt(pdf_fn, "png")>>}
                 \cup {<<REPORTS_REPORTS, s.list[r].number>> : r \in 1..Len(s.list)}
                 \cup {p \in {diff_fn} : s.diff # "none"}
                 \cup {p \in {PctChgFn(diff_fn)} : s.diff = "whole"}
                 \cup {p \in {OutFn(R1)} : s.epub}
    IN  [p \in names |->
            CASE p[1] = REPORTS_FILES -> File("published", BytesOf(p[2]), p)
              [] p[1] = REPORTS_REPORTS ->
                    File("json", CHOOSE report \in {s.list[r] : r \in 1..Len(s.list)} :
                                     report.number = p[2], p)
              [] p[1] = REPORTS_DIFFS -> File("create_diff", <<"c1", "c1">>, p)
              [] OTHER -> File("pandoc", "c1", p)]

\* The scripts before build.py have run again, and build.py is started on
\* what they left and on the site that the builds before have made.
NextBuildRun ==
    /\ pc = "build"
    /\ site.raised \/ site.removed
    /\ site.run < MaxRuns
    /\ \E s \in BuildSetups :
          /\ site' = NewBuildRun(s.list, s.code, site.run + 1)
          /\ disk' = [p \in {q \in DOMAIN disk : q[1] \in {BUILD_REPORTS, BUILD_CHANGES}} |->
                          disk[p]] @@ BuildDisk(s)
    /\ prev' = disk'
    /\ written' = {}
    /\ unlinked' = {}
    /\ UNCHANGED <<pc, run, denylist, incoming, withheld_reports, reports, reportsList,
                   all_files, error, nread, offered, hashcache, pool, page>>

InitBuild ==
    /\ pc = "build"
    /\ run = 1
    /\ denylist = NoDenylist
    /\ incoming = NoIncoming
    /\ withheld_reports = {}
    /\ reports = EmptyReports
    /\ reportsList = <<>>
    /\ all_files = {}
    /\ error = NoError
    /\ nread = 0
    /\ offered = <<>>
    /\ hashcache = <<>>
    /\ written = {}
    /\ unlinked = {}
    /\ pool = NoPool
    /\ page = NoPage
    /\ \E s \in BuildSetups :
          /\ site = NewBuildRun(s.list, s.code, 1)
          /\ disk = BuildDisk(s)
          /\ prev = disk

NextBuild ==
    \/ GenerateReportPage
    \/ RemoveOrphanedReports
    \/ NextBuildRun

SpecBuild == InitBuild /\ [][NextBuild]_vars

\* ------------------------------------------------------ update_search_index
INDEX_CACHE_FN == <<"/mnt/volume_nyc1_02", "algolia-index-cache.json">>

INDEX_CACHE_FN_1 == <<"/mnt/volume_nyc1_02", "algolia-index-cache.json.1">>

\* cache = json.load(open(INDEX_CACHE_FN)) when the file is there, else { }.
LoadCache(d) == IF INDEX_CACHE_FN \in DOMAIN d THEN d[INDEX_CACHE_FN].bytes ELSE <<>>

\* cache.get(cache_key)
CacheGet(cache, cache_key) == IF cache_key \in DOMAIN cache THEN cache[cache_key] ELSE <<>>

\* The per-report JSON files in the order of glob.glob.
ReportFns(d) ==
    LET numbers == {p[2] : p \in {q \in DOMAIN d : q[1] = REPORTS_REPORTS}}
    IN  SelectSeq(<<R1, R2>>, LAMBDA n : n \in numbers)

\* A scan that takes a report for pushed when the cache has its key.
StaleReportsByKey(d, cache) ==
    LET fns == ReportFns(d)
        entries == [k \in 1..Len(fns) |->
                       [reportfn |-> <<REPORTS_REPORTS, fns[k]>>, cache_key |-> fns[k],
                        cache_value |-> Sha1(d[<<REPORTS_REPORTS, fns[k]>>].bytes)]]
    IN  SelectSeq(entries, LAMBDA e : e.cache_key \notin DOMAIN cache)

\* The scan for the reports to push: those whose JSON file has another
\* hash than the cache holds under the key of the file.
StaleReports(d, cache) ==
    LET fns == ReportFns(d)
        entries == [k \in 1..Len(fns) |->
                       [reportfn |-> <<REPORTS_REPORTS, fns[k]>>, cache_key |-> fns[k],
                        cache_value |-> Sha1(d[<<REPORTS_REPORTS, fns[k]>>].bytes)]]
    IN  SelectSeq(entries, LAMBDA e : CacheGet(cache, e.cache_key) # e.cache_value)

\* The run of update_search_index after its scan; index is what the search
\* service holds, object by object, and saved is every object that it was
\* ever given.
NewIndexRun(d, index, saved, n) ==
    [script |-> "update_search_index", cache |-> LoadCache(d),
     reports |-> StaleReports(d, LoadCache(d)), i |-> 1, at |-> "push", pushed |-> {},
     stopped |-> FALSE, index |-> index, saved |-> saved, run |-> n]

IndexRunning ==
    /\ pc = "index"
    /\ ~site.stopped
    /\ site.i <= Len(site.reports)

\* update_search_index_for(report, index): the object of the report is
\* saved, or the call raises and ends the run.
PushToIndex ==
    /\ IndexRunning
    /\ site.at = "push"
    /\ LET reportfn == site.reports[site.i].reportfn
       IN  \/ site' = [site EXCEPT !.index = [n \in DOMAIN @ \cup {reportfn[2]} |->
                                                IF n = reportfn[2] THEN disk[reportfn].bytes
                                                ELSE @[n]],
                                   !.saved = @ \cup {<<reportfn[2], disk[reportfn].bytes>>},
                                   !.pushed = @ \cup {reportfn[2]},
                                   !.at = "dump"]
           \/ site' = [site EXCEPT !.stopped = TRUE, !.at = "raised"]
    /\ UNCHANGED <<pc, run, denylist, incoming, withheld_reports, reports, reportsList,
                   all_files, error, nread, offered, hashcache, disk, prev, written,
                   unlinked, pool, page>>

\* cache[cache_key] = cache_value, and the first stage of the save.
DumpCache ==
    /\ IndexRunning
    /\ site.at = "dump"
    /\ LET e == site.reports[site.i]
           cache == [k \in DOMAIN site.cache \cup {e.cache_key} |->
                        IF k = e.cache_key THEN e.cache_value ELSE site.cache[k]]
       IN  /\ site' = [site EXCEPT !.cache = cache, !.at = "rename"]
           /\ disk' = WriteFile(disk, INDEX_CACHE_FN_1, File("json", cache, INDEX_CACHE_FN_1))
    /\ UNCHANGED <<pc, run, denylist, incoming, withheld_reports, reports, reportsList,
                   all_files, error, nread, offered, hashcache, prev, written,
                   unlinked, pool, page>>

\* os.rename(INDEX_CACHE_FN + ".1", INDEX_CACHE_FN)
RenameCache ==
    /\ IndexRunning
    /\ site.at = "rename"
    /\ disk' = [p \in (DOMAIN disk \ {INDEX_CACHE_FN_1}) \cup {INDEX_CACHE_FN} |->
                   IF p = INDEX_CACHE_FN THEN disk[INDEX_CACHE_FN_1] ELSE disk[p]]
    /\ site' = [site EXCEPT !.at = "push", !.i = @ + 1]
    /\ UNCHANGED <<pc, run, denylist, incoming, withheld_reports, reports, reportsList,
                   all_files, error, nread, offered, hashcache, prev, written,
                   unlinked, pool, page>>

\* The process is stopped from outside while the loop runs.
IndexInterrupt ==
    /\ IndexRunning
    /\ site' = [site EXCEPT !.stopped = TRUE]
    /\ UNCHANGED <<pc, run, denylist, incoming, withheld_reports, reports, reportsList,
                   all_files, error, nread, offered, hashcache, disk, prev, written,
                   unlinked, pool, page>>

\* ----------------------------------------------- update_search_index: inputs
\* The per-report JSON files that process_incoming has written: each report
\* in one of two states.
IndexDisks ==
    {[p \in {<<REPORTS_REPORTS, R1>>, <<REPORTS_REPORTS, R2>>} |->
         File("json", IF p[2] = R1 THEN c[1] ELSE c[2], p)] :
        c \in {"j1", "j2"} \X {"j1", "j2"}}

\* process_incoming has run again and update_search_index is started on
\* what it wrote, with the cache file that the runs before have left.
NextIndexRun ==
    /\ pc = "index"
    /\ site.stopped \/ site.i > Len(site.reports)
    /\ site.run < MaxRuns
    /\ \E d \in IndexDisks :
          /\ disk' = [p \in {q \in DOMAIN disk : q[1] = INDEX_CACHE_FN[1]} |-> disk[p]] @@ d
          /\ site' = NewIndexRun(disk', site.index, site.saved, site.run + 1)
    /\ prev' = disk'
    /\ UNCHANGED <<pc, run, denylist, incoming, withheld_reports, reports, reportsList,
                   all_files, error, nread, offered, hashcache, written, unlinked, pool, page>>

InitIndex ==
    /\ pc = "index"
    /\ run = 1
    /\ denylist = NoDenylist
    /\ incoming = NoIncoming
    /\ withheld_reports = {}
    /\ reports = EmptyReports
    /\ reportsList = <<>>
    /\ all_files = {}
    /\ error = NoError
    /\ nread = 0
    /\ offered = <<>>
    /\ hashcache = <<>>
    /\ written = {}
    /\ unlinked = {}
    /\ pool = NoPool
    /\ page = NoPage
    /\ disk \in IndexDisks
    /\ prev = disk
    /\ site = NewIndexRun(disk, <<>>, {}, 1)

NextIndex ==
    \/ PushToIndex
    \/ DumpCache
    \/ RenameCache
    \/ IndexInterrupt
    \/ NextIndexRun

SpecIndex == InitIndex /\ [][NextIndex]_vars

\* ------------------------------------------------------ scrape_crs_website
\* fetch_report_version(doc, seq, cover_date) on the disk d, as a function:
\* what it returns and what it leaves on disk; content is what the download
\* of the PDF returns.
fetch_report_version(d, number, seq, cover_date, content) ==
    LET json_fn == <<CONGRESS_DOCUMENTS, [number |-> number, seq |-> seq, day |-> cover_date]>>
        download == \/ json_fn \notin DOMAIN d
                    \/ <<CONGRESS_INCOMING_FILES, d[json_fn].bytes.filename>> \notin DOMAIN d
        pdf_file == IF download THEN ScraperFileName(cover_date, number, content)
                    ELSE d[json_fn].bytes.filename
        pdf_fn == <<CONGRESS_INCOMING_FILES, pdf_file>>
        saved == IF download THEN WriteFile(d, pdf_fn, File("raw", content, pdf_fn)) ELSE d
    IN  [did_fetch |-> download,
         disk |-> WriteFile(saved, json_fn,
                            File("json", [filename |-> pdf_file, sha1 |-> pdf_file.sha1],
                                 json_fn))]

\* A report of a page of results: its number, whether it is the
\* "Appropriations Status Table", and its versions (of PreviousVersions, or
\* the current one alone) as pairs of sequence number and cover date.
Listed(number, skipped, versions) ==
    [ProductNumber |-> number, skipped |-> skipped, report_versions |-> versions]

\* The run of scrape_report_listing over the pages that the site serves.
NewScrape(pages) ==
    [script |-> "scrape_crs_website", pages |-> pages, page_number |-> 1, r |-> 1, v |-> 1,
     did_fetch |-> FALSE, fetched_reports |-> 0, invoked |-> {}, done |-> FALSE]

\* body["TotalRecCount"]
TotalRecCount(pages) == Len(Flatten(pages))

ScrapeAtReport ==
    /\ pc = "scrape"
    /\ ~site.done
    /\ site.r <= Len(site.pages[site.page_number])

\* A report that the loop passes over.
ScrapeSkip ==
    /\ ScrapeAtReport
    /\ site.pages[site.page_number][site.r].skipped
    /\ site' = [site EXCEPT !.r = @ + 1, !.fetched_reports = @ + 1]
    /\ UNCHANGED <<pc, run, denylist, incoming, withheld_reports, reports, reportsList,
                   all_files, error, nread, offered, hashcache, disk, prev, written,
                   unlinked, pool, page>>

\* One pass of the loop over the versions of a report:
\* did_fetch = did_fetch or fetch_report_version(report, seq, cover_date),
\* where "or" evaluates its right side only when did_fetch is False.
ScrapeVersion ==
    /\ ScrapeAtReport
    /\ ~site.pages[site.page_number][site.r].skipped
    /\ LET report == site.pages[site.page_number][site.r]
           version == report.report_versions[site.v]
           last == site.v = Len(report.report_versions)
           call == fetch_report_version(disk, report.ProductNumber, version[1], version[2], "c1")
           moved == [site EXCEPT !.v = IF last THEN 1 ELSE @ + 1,
                                 !.r = IF last THEN @ + 1 ELSE @,
                                 !.fetched_reports = IF site.v = 1 THEN @ + 1 ELSE @]
       IN  IF site.did_fetch
           THEN /\ site' = moved
                /\ UNCHANGED disk
           ELSE /\ site' = [moved EXCEPT !.did_fetch = call.did_fetch,
                                         !.invoked = @ \cup {<<report.ProductNumber, version[1]>>}]
                /\ disk' = call.disk
    /\ UNCHANGED <<pc, run, denylist, incoming, withheld_reports, reports, reportsList,
                   all_files, error, nread, offered, hashcache, prev, written,
                   unlinked, pool, page>>

\* The end of a page: the run ends when nothing on the page was fetched or
\* every report has been counted, and goes to the next page otherwise.
ScrapePageEnd ==
    /\ pc = "scrape"
    /\ ~site.done
    /\ site.r > Len(site.pages[site.page_number])
    /\ site' = IF ~site.did_fetch \/ site.fetched_reports = TotalRecCount(site.pages)
               THEN [site EXCEPT !.done = TRUE]
               ELSE [site EXCEPT !.page_number = @ + 1, !.r = 1, !.v = 1, !.did_fetch = FALSE]
    /\ UNCHANGED <<pc, run, denylist, incoming, withheld_reports, reports, reportsList,
                   all_files, error, nread, offered, hashcache, disk, prev, written,
                   unlinked, pool, page>>

\* --------------------------------------------------- scrape_crs_website: inputs
\* A report with every version up to MaxSeq, a report of one version, and
\* the table that is passed over.
ManyVersions == Listed(R1, FALSE, [seq \in 1..MaxSeq |-> <<seq, seq>>])

OneVersion(number) == Listed(number, FALSE, << <<1, 1>> >>)

StatusTable == Listed(<<"A", "P">>, TRUE, << <<1, 1>> >>)

\* The pages that the site serves: a first page, alone or before a second.
Listings ==
    {<<first>> : first \in {<<ManyVersions, OneVersion(R2)>>, <<OneVersion(R2), ManyVersions>>,
                            <<StatusTable, ManyVersions>>, <<ManyVersions>>}}
    \cup {<<first, <<OneVersion(R9)>> >> :
             first \in {<<ManyVersions, OneVersion(R2)>>, <<OneVersion(R2), ManyVersions>>,
                        <<StatusTable, ManyVersions>>, <<ManyVersions>>}}

\* What the runs before have left of a version: nothing, the metadata and
\* the PDF, or the metadata alone.
ScrapedBefore ==
    [({R1} \X (1..MaxSeq)) \cup {<<R2, 1>>} -> {"nothing", "fetched", "json"}]

ScrapeDisk(before) ==
    LET json(k) == <<CONGRESS_DOCUMENTS, [number |-> k[1], seq |-> k[2], day |-> k[2]]>>
        pdf(k) == <<CONGRESS_INCOMING_FILES, ScraperFileName(k[2], k[1], "c1")>>
        names == {json(k) : k \in {j \in DOMAIN before : before[j] # "nothing"}}
                 \cup {pdf(k) : k \in {j \in DOMAIN before : before[j] = "fetched"}}
    IN  [p \in names |->
            IF p[1] = CONGRESS_DOCUMENTS
            THEN File("json", [filename |-> ScraperFileName(p[2].day, p[2].number, "c1"),
                               sha1 |-> Sha1("c1")], p)
            ELSE File("raw", "c1", p)]

InitScrape ==
    /\ pc = "scrape"
    /\ run = 1
    /\ denylist = NoDenylist
    /\ incoming = NoIncoming
    /\ withheld_reports = {}
    /\ reports = EmptyReports
    /\ reportsList = <<>>
    /\ all_files = {}
    /\ error = NoError
    /\ nread = 0
    /\ offered = <<>>
    /\ hashcache = <<>>
    /\ written = {}
    /\ unlinked = {}
    /\ pool = NoPool
    /\ page = NoPage
    /\ \E pages \in Listings, before \in ScrapedBefore :
          /\ site = NewScrape(pages)
          /\ disk = ScrapeDisk(before)
          /\ prev = disk

NextScrape ==
    \/ ScrapeSkip
    \/ ScrapeVersion
    \/ ScrapePageEnd

SpecScrape == InitScrape /\ [][NextScrape]_vars

\* ------------------------------------------------------------------ claims
\* The calendar day of a version (the first 10 characters of its date).
DayOf(v) == Prefix10(v.date)

\* The reports that read_reports_metadata has returned.
Returned == {reportsList[i] : i \in 1..Len(reportsList)}

\* C1: after read_reports_metadata has run the three loaders, no two version
\* records of a report fall on the same calendar day of publication date
\* (first 10 characters of 'date'), whatever their sources and date formats.
C1_OneVersionPerDay ==
    pc = "read_done" =>
        \A r \in Returned : \A i, j \in 1..Len(r.versions) :
            i # j => DayOf(r.versions[i]) # DayOf(r.versions[j])

\* C2: when a loader offers a record for a report that already holds a record
\* of the same calendar day, the record is discarded and the dictionary is
\* left as it was, so of two same-day inputs the first loader's one survives.
\* The versions held for the offered record's report that fall on its day and
\* come from another source.
HeldFromOtherSource(rs, offer) ==
    {i \in 1..Len(Versions(rs, offer[1])) :
        /\ DayOf(Versions(rs, offer[1])[i]) = DayOf(offer[2])
        /\ Versions(rs, offer[1])[i].source # offer[2].source}

C2_SameDayOfferIsDiscarded ==
    [][(offered' # <<>> /\ HeldFromOtherSource(reports, offered') # {})
       => reports' = reports]_vars

\* C3: in every report returned by read_reports_metadata the versions are in
\* non-increasing order of publication day, and two versions of one day are
\* ordered by retrieval timestamp, the most recently retrieved first.
C3_NewestFirst ==
    pc = "read_done" =>
        \A r \in Returned : \A i, j \in 1..Len(r.versions) :
            i < j =>
                /\ r.versions[i].date.day >= r.versions[j].date.day
                /\ DayOf(r.versions[i]) = DayOf(r.versions[j])
                      => r.versions[i].retrieved >= r.versions[j].retrieved

\* The index of the first version of the report that comes from a source.
FirstFrom(r, src) ==
    CHOOSE k \in 1..Len(r.versions) :
        /\ r.versions[k].source = src
        /\ \A m \in 1..(k - 1) : r.versions[m].source # src

\* C4: transform_report_metadata takes type, typeId and active from
\* versions[0], and 'source' lists every source that contributed a version
\* exactly once, in the order of first occurrence in the version list.
C4_ReportFieldsFromNewest ==
    pc = "read_done" =>
        \A r \in Returned :
            /\ r.type = r.versions[1].type
            /\ r.typeId = r.versions[1].typeId
            /\ r.active = r.versions[1].active
            /\ {r.source[i] : i \in 1..Len(r.source)}
                  = {r.versions[k].source : k \in 1..Len(r.versions)}
            /\ \A i, j \in 1..Len(r.source) :
                  i < j => /\ r.source[i] # r.source[j]
                           /\ FirstFrom(r, r.source[i]) < FirstFrom(r, r.source[j])

\* A report of three versions from two sources whose first version is not of
\* the type of its last, and in which a source occurs twice.
C4_Witness ==
    /\ pc = "read_done"
    /\ \E r \in Returned :
          /\ Len(r.versions) = 3
          /\ Len(r.source) = 2
          /\ r.versions[1].typeId # r.versions[3].typeId
          /\ r.versions[1].active # r.versions[3].active

\* write_reports_metadata has run in this run (it returned or it raised).
WriteHasRun ==
    \/ pc \in {"written", "done"}
    \/ pc = "aborted" /\ error.at \in {"write_reports_metadata", "__main__"}

\* C5: after write_reports_metadata has run, no JSON file of a report that no
\* raw input produces any more is left under reports/reports, the JSON files
\* of the current reports are there, and the function has not raised.
C5_OrphanedReportsDeleted ==
    WriteHasRun =>
        /\ OrphanedReports(disk, reportsList) = {}
        /\ ReportPaths(reportsList) \subseteq DOMAIN disk
        /\ error.at # "write_reports_metadata"

\* The files under reports/.
Output(d) == {p \in DOMAIN d : p[1] \in {REPORTS_REPORTS, REPORTS_FILES}}

\* Every file that was under reports/ when the run started is still there,
\* the same bytes in the same inode.
KeepsPrevious ==
    \A p \in Output(prev) : p \in DOMAIN disk /\ SameFile(disk[p], prev[p])

\* C6 (as stated): in a second run on unchanged inputs the files under
\* reports/ keep their bytes, no file that was there is written again, none is
\* deleted, and the run ends with the set of paths it started with.
C6_SecondRunWritesNothing ==
    run > 1 =>
        /\ KeepsPrevious
        /\ written \cap Output(prev) = {}
        /\ unlinked = {}
        /\ (pc = "done" => Output(disk) = Output(prev))

\* C6 (amended): in a second run on unchanged inputs every file that was under
\* reports/ is still there with the same bytes and none is deleted; the only
\* files written again are the per-report JSON files (with the same bytes); the
\* only files added are thumbnails that the run before did not produce.
C6_SecondRunKeepsOutput ==
    run > 1 =>
        /\ KeepsPrevious
        /\ unlinked = {}
        /\ \A p \in written \cap Output(prev) : p[1] = REPORTS_REPORTS
        /\ \A p \in Output(disk) \ Output(prev) : disk[p].kind = "png"

\* A second run has completed: it wrote the reports' JSON again and linked no
\* image again, and it added a thumbnail that the first run had lost.
C6_Witness ==
    /\ run = 2
    /\ pc = "done"
    /\ written \cap Output(prev) # {}
    /\ Output(disk) # Output(prev)
    /\ \E p \in Output(prev) : p[2] = ImageName

\* The report numbers that the denylist lists: the first tab-separated field
\* of each line, without the line break.
DenylistedNumbers ==
    {RemoveChar(SplitFirst(denylist[i], "\t"), "\n") : i \in 1..Len(denylist)}

\* The report number that an output path is for.
NumberOf(p) == IF p[1] = REPORTS_REPORTS THEN p[2] ELSE p[2].number

\* C7: no version of a report whose number the denylist lists is collated, no
\* report of that number is returned, and no file is written for it, whichever
\* source supplies the record.
C7_WithheldNeverEmitted ==
    \A n \in DenylistedNumbers :
        /\ ~HasKey(reports, n)
        /\ \A i \in 1..Len(reportsList) : reportsList[i].id # n
        /\ \A p \in written : NumberOf(p) # n

\* C8: every path under reports/reports that the collator writes is made from
\* a report number of the characters 0-9, A-Z and "-" only.
C8_OutputPathsValid ==
    \A p \in written : p[1] = REPORTS_REPORTS => AllAllowed(p[2])

\* C9: no raw record makes a loader or read_reports_metadata raise: the run is
\* never ended by an exception that leaves read_reports_metadata.
C9_BadRecordNeverAborts ==
    error.at \notin {"load_crs_dot_gov_reports", "load_unt_reports",
                     "load_crsreports_dot_congress_dot_gov_reports",
                     "read_reports_metadata"}

\* The PDFs that the two stores hold.
StoredPdfs(d) ==
    {p \in DOMAIN d : p[1] \in {REPORTS_FILES, CONGRESS_INCOMING_FILES} /\ p[2].ext = "pdf"}

\* C10 (as stated): when the bytes that a store is given are stored already,
\* the store writes no PDF, and afterwards all stored PDFs of these bytes
\* have one file name.
C10_IdenticalBytesOneName ==
    [][offered' # <<>> =>
        LET before == {p \in StoredPdfs(disk) : disk[p].bytes = offered'.bytes}
            after == {p \in StoredPdfs(disk') : disk'[p].bytes = offered'.bytes}
        IN  before # {} =>
                /\ \A p \in after, q \in after : p[2] = q[2]
                /\ written' \cap StoredPdfs(disk') = {}]_vars

\* C10 (amended): the PDFs of the same bytes that one store holds for the same
\* report number and date have one file name, whatever the name they came
\* under; when that file is there already load_unt_reports writes nothing and
\* fetch_report_version leaves its bytes as they are.
C10_SameReportOneName ==
    [][offered' # <<>> =>
        LET held(d) == {p \in StoredPdfs(d) : /\ p[1] = offered'.dir
                                              /\ d[p].bytes = offered'.bytes
                                              /\ p[2].number = offered'.number
                                              /\ p[2].day = offered'.day}
        IN  /\ \A p \in held(disk'), q \in held(disk') : p = q
            /\ \A p \in held(disk) :
                 /\ SameFile(disk'[p], disk[p])
                 /\ offered'.storer = "load_unt_reports" => written' = {} /\ disk' = disk]_vars

\* load_unt_reports was given the bytes of a report's PDF under the member
\* name b/scan.pdf after it had read them under a/report.pdf; the record was
\* new to the dictionary, the file was there, nothing was written.
C10_Witness ==
    /\ offered # <<>>
    /\ offered.storer = "load_unt_reports"
    /\ offered.original = "b/scan.pdf"
    /\ offered.stored
    /\ "a/report.pdf" \in DOMAIN hashcache
    /\ <<REPORTS_FILES, offered.name>> \in DOMAIN disk
    /\ written = {}


\* The nodes of a tree.
RECURSIVE NodesOf(_)
NodesOf(n) == {n} \cup UNION {NodesOf(n.children[i]) : i \in 1..Len(n.children)}

\* The text holds an author's name, a crs.gov address, a phone number, or an
\* extension that no digit precedes.
HoldsPersonalData(text) ==
    \E i \in 1..Len(text) :
        \/ text[i] \in {AuthorName, Email, Phone}
        \/ text[i] = Ext /\ ~(i > 1 /\ EndsInDigit(text[i-1]))

\* The sanitized page has been written.
Sanitized == page.done /\ ~page.raise

\* C11: the sanitized HTML that clean_html writes holds no author's name, no
\* crs.gov or crs.loc.gov address, no 7-xxxx extension and no (xxx) xxx-xxxx
\* phone number of its input, neither as text nor inside an attribute.
C11_PersonalDataScrubbed ==
    Sanitized =>
        \A n \in NodesOf(page.out) :
            /\ ~HoldsPersonalData(n.text)
            /\ ~HoldsPersonalData(n.tail)
            /\ ~HoldsPersonalData(<<n.title>>)
            /\ n.href # NoHref => ~HoldsPersonalData(<<n.href[2]>>)

\* The attributes that a node of the output shows, in markup or escaped.
ShownAttributes(n) ==
    {name \in {"href", "src", "title", "onclick", "name", "colspan"} :
        \/ name = "href" /\ n.href # NoHref
        \/ name = "src" /\ n.src # ""
        \/ name = "title" /\ n.title # ""
        \/ name = "onclick" /\ n.onclick # ""
        \/ name = "name" /\ n.name # ""
        \/ name = "colspan" /\ n.colspan # ""}

\* The attribute of the node is one that the call of bleach.clean allows.
OnAllowList(n, name) ==
    CASE name = "href"  -> n.tag = "a" /\ n.href[1] \in {"http:", "https:", "#"}
      [] name = "src"   -> n.tag = "img" /\ n.src \in {WebImageSrc, ScrapedImage}
      [] name = "title" -> n.tag \notin {"a", "img"}
      [] name = "name"  -> n.tag = "a"
      [] name = "colspan" -> n.tag \in {"td", "th"}
      [] OTHER          -> FALSE

\* C12 as stated: in the output of clean_html no element with a tag outside
\* the allow-list and no attribute outside it appears in any form, markup
\* or escaped.
C12_DisallowedDropped ==
    Sanitized =>
        \A n \in NodesOf(page.out) :
            n.form # "stripped" =>
                /\ n.form = "markup"
                /\ n.tag \in AllowedTags
                /\ \A name \in ShownAttributes(n) : OnAllowList(n, name)

\* C12, amended: in the output of clean_html every element that is markup
\* has a tag of the allow-list and only attributes of the allow-list; an
\* element with any other tag is there, but escaped into text.
C12_DisallowedNeverMarkup ==
    Sanitized =>
        \A n \in NodesOf(page.out) :
            /\ n.form = "markup" =>
                   /\ n.tag \in AllowedTags
                   /\ \A name \in ShownAttributes(n) : OnAllowList(n, name)
            /\ n.form = "escaped" <=> (n.form # "stripped" /\ n.tag \notin AllowedTags)

\* A sanitized page that had an onclick on an allowed element, now without
\* it, and an element outside the allow-list, now escaped.
C12_Witness ==
    /\ Sanitized
    /\ \E n \in NodesOf(page.out) : n.form = "escaped" /\ n.onclick # ""
    /\ \E m \in NodesOf(page.in.body), k \in NodesOf(page.out) :
          m.id = k.id /\ m.onclick # "" /\ k.form = "markup" /\ k.onclick = ""

\* The elements of the input page with a mailto: href in any case of
\* letters, each with what the output holds in its place.
MailLinks ==
    {mk \in NodesOf(page.in.body) \X NodesOf(page.out) :
        /\ mk[1].id = mk[2].id
        /\ mk[1].kind = "element"
        /\ mk[1].href \in {MailtoHref, MailtoUpperHref}}

TaskIds == 1..Len(pool.tasks)

CleaningTasks == {t \in TaskIds : pool.tasks[t].func \in {"clean_html", "clean_pdf"}}

\* The first loop of clean_files is over.
CleaningSubmitted == pool.i > Len(pool.items)

\* C13: a task in which clean_html or clean_pdf raises ends without the
\* exception reaching clean_files, leaves no file at its output path, the
\* run goes on to process the other files, and the next run submits a task
\* for that output path again.
C13_FailedTaskLeavesNothing ==
    /\ error = NoError
    /\ \A t \in CleaningTasks :
          pool.tasks[t].state = "done" /\ pool.tasks[t].raised
              => pool.tasks[t].out \notin DOMAIN disk
    /\ pool.joined =>
          \A i \in 1..Len(pool.items) :
              LET entry == pool.items[i]
                  in_fn == <<IncomingDir(entry.version), entry.file.filename>>
                  out_fn == <<REPORTS_FILES, entry.file.filename>>
              IN  in_fn \in DOMAIN disk =>
                      \/ out_fn \in DOMAIN disk
                      \/ \E t \in CleaningTasks :
                            pool.tasks[t].out = out_fn /\ pool.tasks[t].raised
    /\ CleaningSubmitted =>
          \A out_fn \in pool.failed : \E t \in CleaningTasks : pool.tasks[t].out = out_fn

\* The second run is over; a task of the first run had raised, and so has
\* the task that took its place, while another file came out.
C13_Witness ==
    /\ run = 2
    /\ pool.joined
    /\ pool.failed # {}
    /\ \E t \in CleaningTasks : pool.tasks[t].out \in pool.failed /\ pool.tasks[t].raised
    /\ \E p \in DOMAIN disk : p[1] = REPORTS_FILES /\ disk[p].kind \in {"redacted", "clean_html"}

\* C14: no two tasks that a run of clean_files gives to the pool have the
\* same output path.
C14_OutputPathsDistinct ==
    \A t \in TaskIds, u \in TaskIds : t # u => pool.tasks[t].out # pool.tasks[u].out

\* The tasks that write the PDF that the task reads.
Producers(t) == {c \in CleaningTasks : pool.tasks[c].out = pool.tasks[t].in}

\* C15: a thumbnail task starts only when the task that writes its PDF is
\* done, and clean_files returns to the steps that read the outputs
\* (pdftotext, the writing of the metadata) only when every task is done.
C15_DerivedAfterRedaction ==
    /\ \A t \in TaskIds \ CleaningTasks :
          pool.tasks[t].state # "queued"
              => \A c \in Producers(t) : pool.tasks[c].state = "done"
    /\ pool.joined => Unfinished(pool.tasks) = {}

\* A step is an iteration of one of the two loops of clean_files.
LoopStep == pool'.i = pool.i + 1

Submitted == Len(pool'.tasks) = Len(pool.tasks) + 1

Tracked == {pool.open[k] : k \in 1..Len(pool.open)}

\* C17: at most 21 tasks are submitted and not completed at any time of
\* either loop; a task that open_tasks no longer holds is done or is the one
\* that the loop is waiting for; and the loop waits for its oldest task when
\* it tracks more than 20 (cleaning) or more than 5 (thumbnails).
C17_BoundedBacklog ==
    [][/\ Cardinality({t \in 1..Len(pool'.tasks) : pool'.tasks[t].state # "done"}) <= 21
       /\ \A t \in 1..Len(pool'.tasks) :
             (\A k \in 1..Len(pool'.open) : pool'.open[k] # t)
                 => pool'.tasks[t].state = "done" \/ pool'.waiting = t
       /\ LoopStep /\ Submitted =>
             LET tracked == Append(pool.open, Len(pool'.tasks))
                 most == IF pool.i <= Len(pool.items) THEN 20 ELSE 5
             IN  IF Len(tracked) > most
                 THEN pool'.waiting = Head(tracked) /\ pool'.open = Tail(tracked)
                 ELSE pool'.waiting = 0 /\ pool'.open = tracked]_vars

\* The cleaning loop waits for its oldest task with 21 tasks not completed.
C17_Witness ==
    /\ pool.waiting # 0
    /\ pool.i <= Len(pool.items)
    /\ Cardinality(Unfinished(pool.tasks)) = 21

\* The finished clean_pdf tasks of crs.gov versions.
RedactionsDone ==
    {t \in TaskIds : /\ pool.tasks[t].func = "clean_pdf"
                     /\ pool.tasks[t].version.source = INCOMING_SOURCE
                     /\ pool.tasks[t].state = "done"}

PdfsPublished ==
    {t \in TaskIds : /\ pool.tasks[t].func = "clean_pdf"
                     /\ pool.tasks[t].state = "done"
                     /\ ~pool.tasks[t].raised}

KeptElements ==
    {mk \in NodesOf(page.in.body) \X NodesOf(page.out) :
        /\ mk[1].id = mk[2].id
        /\ mk[1].kind = "element"
        /\ mk[2].form = "markup"}

\* What the output of clean_html shows of href, src, colspan and onclick:
\* href only with http:, https: or '#' in front, src only with http: or
\* https: in front or of a rewritten image, colspan only on td and th, and
\* never an onclick.
GuardedAttributes(n) ==
    /\ n.href # NoHref => n.href[1] \in {"http:", "https:", "#"}
    /\ n.src # "" => n.src \in {WebImageSrc, ScrapedImage}
    /\ n.colspan # "" => n.tag \in {"td", "th"}
    /\ n.onclick = ""
    /\ n.class \subseteq allowed_classes

Chronological(report) ==
    [k \in 1..Len(report.versions) |-> report.versions[Len(report.versions) + 1 - k]]

HtmlOf(version) ==
    LET names == {version.formats[f].filename :
                    f \in {g \in 1..Len(version.formats) : version.formats[g].format = "HTML"}}
    IN  IF names = {} THEN <<>> ELSE CHOOSE fn \in names : TRUE

\* The pairs of HTML pages of versions that follow each other in time with
\* no HTML version between them.
AdjacentHtml(report) ==
    LET vs == Chronological(report)
    IN  {<<HtmlOf(vs[ab[1]]), HtmlOf(vs[ab[2]])>> : ab \in
            {ab \in (1..Len(vs)) \X (1..Len(vs)) :
                /\ ab[1] < ab[2]
                /\ HtmlOf(vs[ab[1]]) # <<>>
                /\ HtmlOf(vs[ab[2]]) # <<>>
                /\ \A c \in (ab[1] + 1)..(ab[2] - 1) : HtmlOf(vs[c]) = <<>>}}

\* The diffs that a run of compare_versions has to make: of the adjacent
\* pairs whose file names differ, whose two files were there when the run
\* started, and whose diff was not.
DiffsDue ==
    {DiffFn(pair[1], pair[2]) : pair \in
        {pair \in UNION {AdjacentHtml(site.reports[r]) : r \in 1..Len(site.reports)} :
            /\ pair[1] # pair[2]
            /\ <<REPORTS_FILES, pair[1]>> \in DOMAIN prev
            /\ <<REPORTS_FILES, pair[2]>> \in DOMAIN prev
            /\ DiffFn(pair[1], pair[2]) \notin DOMAIN prev}}

DiffRunComplete == pc = "diff" /\ ~site.killed /\ site.i > Len(site.todo)

\* C22: a run of compare_versions that comes to its end has generated a
\* diff for exactly the pairs of chronologically adjacent HTML versions
\* whose file names differ and whose two files exist, except the pairs
\* whose diff file was there already, and no run writes a diff file that
\* was there when it started.
C22_DiffsOfAdjacentVersions ==
    /\ DiffRunComplete =>
          {p \in written : p[1] = REPORTS_DIFFS /\ p[2].fn.ext = "html"} = DiffsDue
    /\ pc = "diff" => written \cap DOMAIN prev = {}

\* A second run that came to its end after a first run had made a diff: it
\* made none, although a pair with different names and both files is there;
\* the report has a version without HTML or with the file name of the
\* version before it, which made no pair.
C22_Witness ==
    /\ DiffRunComplete
    /\ site.run = 2
    /\ written = {}
    /\ \E p \in DOMAIN prev : p[1] = REPORTS_DIFFS
    /\ Len(site.todo) < Len(site.reports[1].versions) - 1

\* The diff HTML files under reports/diffs.
DiffFiles == {p \in DOMAIN disk : p[1] = REPORTS_DIFFS /\ p[2].fn.ext = "html"}

\* C29: in every reachable state, a stop of compare_versions between the
\* two writes of create_diff included, every diff HTML file under
\* reports/diffs has its -pctchg.txt file beside it.
C29_PercentChangeBesideDiff ==
    pc = "diff" => \A p \in DiffFiles : PctChgFn(p) \in DOMAIN disk

\* The report that the last call of make_epub was for.
EpubLast == site.reports[IF site.raised THEN site.i ELSE site.i - 1]

\* C23: the ePub that make_epub builds is made from the HTML file of the
\* current version whenever versions[0] has an HTML format, and from the
\* reconstruction of the PDF only when it has none.
C23_EpubFromHtmlWhenThere ==
    (pc = "epub" /\ site.result = "converted") =>
        disk[OutFn(EpubLast.number)].bytes.from =
            IF FormatsOf(EpubLast.versions[1], "HTML") # <<>> THEN "html" ELSE "pdf"

\* The call of make_epub that a step of the loop makes: the report, the
\* source identity string at the time of the call, and whether the sidecar
\* was missing or different.
EpubCall ==
    LET report == site.reports[site.i]
        source == EpubSource(disk, report.versions[1])
        src == EpubSrc(source.fn, ThumbnailFn(disk, report.versions[1]))
        sidecar == SrcFn(report.number)
    IN  [found |-> source.found, src |-> src, sidecar |-> sidecar,
         out_fn |-> OutFn(report.number),
         stale |-> sidecar \notin DOMAIN disk \/ disk[sidecar].bytes # src]

\* C24: a call of make_epub that has a source file converts it if and only
\* if the sidecar .src file is missing or differs from the current source
\* identity string; the sidecar is written, with that string, only when the
\* conversion succeeded; a failed conversion leaves the sidecar as it was,
\* still not matching, so that the next run converts again.
C24_SidecarDecidesRegeneration ==
    [][(pc = "epub" /\ site'.run = site.run /\ site' # site /\ EpubCall.found) =>
          /\ site'.result \in {"converted", "raised"} <=> EpubCall.stale
          /\ site'.result = "converted" =>
                /\ disk'[EpubCall.sidecar].bytes = EpubCall.src
                /\ EpubCall.out_fn \in written'
          /\ site'.result # "converted" =>
                /\ EpubCall.sidecar \in DOMAIN disk' <=> EpubCall.sidecar \in DOMAIN disk
                /\ EpubCall.sidecar \in DOMAIN disk =>
                      disk'[EpubCall.sidecar] = disk[EpubCall.sidecar]
                /\ EpubCall.out_fn \notin written'
          /\ site'.result = "raised" =>
                (EpubCall.sidecar \in DOMAIN disk' => disk'[EpubCall.sidecar].bytes # EpubCall.src)
      ]_vars

\* A second run that converted the first report again because the sidecar
\* of the first run named another source or another thumbnail.
C24_Witness ==
    /\ pc = "epub"
    /\ site.run = 2
    /\ site.result = "converted"
    /\ SrcFn(R1) \in DOMAIN prev
    /\ SrcFn(R1) \in written
    /\ prev[SrcFn(R1)].bytes # disk[SrcFn(R1)].bytes

\* The call of generate_report_page that a step of the loop makes: the
\* page, the current fingerprint, and whether the page is there with it.
PageCall ==
    LET report == site.reports[site.i]
        output_fn == get_report_url_path(report, "html")
        fingerprint == dict_sha1(report, site.dependency_files)
    IN  [output_fn |-> output_fn, fingerprint |-> fingerprint,
         current |-> /\ output_fn \in DOMAIN disk
                     /\ disk[output_fn].bytes.source_content_hash = fingerprint]

C26_OrphansRemoved ==
    [][(pc = "build" /\ site'.removed /\ ~site.removed) =>
          /\ \A p \in DOMAIN disk :
                p[1] = BUILD_REPORTS =>
                    (p \in DOMAIN disk' <=>
                        \E r \in 1..Len(site.reports) :
                            [p[2] EXCEPT !.ext = ""] = get_report_url_path(site.reports[r], "")[2])
          /\ \A p \in DOMAIN disk : p[1] # BUILD_REPORTS => p \in DOMAIN disk'
          /\ \A p \in DOMAIN disk' : p \in DOMAIN disk /\ disk'[p] = disk[p]
      ]_vars

\* A second build after the first report was withdrawn: its page, its JSON
\* file and its ePub are unlinked, the files of the other report remain.
C26_Witness ==
    /\ pc = "build"
    /\ site.removed
    /\ {get_report_url_path(TwoPages, ext) : ext \in {"html", "json", "epub"}} \subseteq unlinked
    /\ {get_report_url_path(EpubOther, ext) : ext \in {"html", "json", "png"}} \subseteq DOMAIN disk

\* C30: whenever generate_report_page skips a page as up to date, the page
\* shows the diff links, the percent-changed values, the ePub link and the
\* report text that a regeneration would produce.
C30_SkippedPageIsCurrent ==
    (pc = "build" /\ site.result = "skipped") =>
        LET report == site.reports[site.i - 1]
            output_fn == get_report_url_path(report, "html")
            without == [p \in DOMAIN disk \ {output_fn} |-> disk[p]]
            again == generate_report_page(without, report, site.dependency_files)
        IN  /\ again.result = "written"
            /\ again.disk[output_fn].bytes = disk[output_fn].bytes

\* The per-report JSON files whose hash the cache file on disk holds.
CachedCurrent ==
    {p \in DOMAIN disk :
        /\ p[1] = REPORTS_REPORTS
        /\ INDEX_CACHE_FN \in DOMAIN disk
        /\ p[2] \in DOMAIN disk[INDEX_CACHE_FN].bytes
        /\ disk[INDEX_CACHE_FN].bytes[p[2]] = Sha1(disk[p].bytes)}

\* The report of the file has been pushed to the index as the file has it.
InIndex(p) == <<p[2], disk[p].bytes>> \in site.saved

\* C28: in every state, a stop of update_search_index at any point
\* included, every report whose hash in the cache file on disk is the hash
\* of its current JSON file has been pushed to the index as it is, so the
\* hash is recorded only after the push returned; and a run that comes to
\* its end has pushed every report whose push had failed or was missing.
C28_CachedOnlyAfterPush ==
    pc = "index" =>
        /\ \A p \in CachedCurrent : InIndex(p)
        /\ (~site.stopped /\ site.i > Len(site.reports)) =>
              \A p \in DOMAIN disk : p[1] = REPORTS_REPORTS => InIndex(p) /\ p \in CachedCurrent

\* A second run that came to its end: it pushed the second report, whose
\* push the first run had not made, and it left alone the first report,
\* which the first run had pushed and recorded.
C28_Witness ==
    /\ pc = "index"
    /\ site.run = 2
    /\ ~site.stopped
    /\ site.i > Len(site.reports)
    /\ site.pushed = {R2}
    /\ INDEX_CACHE_FN \in DOMAIN prev
    /\ DOMAIN prev[INDEX_CACHE_FN].bytes = {R1}

\* The versions that the page lists of the reports that are not passed
\* over, as pairs of report number and sequence number.
ListedVersions(listing) ==
    UNION {{<<listing[r].ProductNumber, listing[r].report_versions[v][1]>> :
               v \in 1..Len(listing[r].report_versions)} :
           r \in {q \in 1..Len(listing) : ~listing[q].skipped}}

\* C27: when scrape_report_listing comes to the end of a page,
\* fetch_report_version has been invoked for every listed version of every
\* report of the page that is not passed over, whether or not an earlier
\* version of the page was downloaded in this run.
C27_EveryListedVersionFetched ==
    (pc = "scrape" /\ ~site.done /\ site.r > Len(site.pages[site.page_number])) =>
        ListedVersions(site.pages[site.page_number]) \subseteq site.invoked

====
